---- MODULE Spec2Model ----
(***************************************************************************)
(* IAM business-role builder: the itemset-mining engine (brb_core/bundling),*)
(* the SoD policy engine (brb_core/sod_rules), the metrics engine          *)
(* (brb_core/metrics), the new-joiner recommender (brb_core/new_joiner)    *)
(* and the bundle diagnosis of the service layer (brb_api/services), as    *)
(* state machines over a tabular dataset.                                  *)
(*                                                                         *)
(* Conventions                                                             *)
(*  - a Python str that the code inspects character by character (role    *)
(*    names, group-column values) is a tuple of one-character strings;      *)
(*  - a support threshold is an integer number of hundredths (0.56 is 56); *)
(*  - coverage_pct is an integer number of hundredths of a percent         *)
(*    (80.0 is 8000); jaccard is an integer number of ten-thousandths;     *)
(*  - a DataFrame is a record [columns, rows]; a row is a function from    *)
(*    column name to value;                                                *)
(*  - an iterable of roles is a sequence (order and repeats as passed);    *)
(*  - a formatted message is the sequence of the pieces of its f-string,   *)
(*    numbers formatted as the code formats them.                          *)
(***************************************************************************)
EXTENDS Integers, Sequences, FiniteSets, TLC

VARIABLES
    df,          \* the dataset handed to every call (columns and rows)
    SOD_RULES,   \* sod_rules.SOD_RULES, the module-level explicit rule table
    args,        \* the keyword arguments of the suggest_itemsets calls
    calls,       \* what the successive suggest_itemsets calls returned
    metric,      \* what the last metrics call did (returned or raised)
    sod_call,    \* the last call of the SoD engine: its input and what it returned
    joiner_call  \* the last call of the new-joiner engine: its input and result

vars == <<df, SOD_RULES, args, calls, metric, sod_call, joiner_call>>

-----------------------------------------------------------------------------
(* Python str: ordering by code point, lower(), the substring test `k in r` *)

CHARS ==
    <<"0","1","2","3","4","5","6","7","8","9","A","B","C","D","E","F","G","H","I","J","K","L","M","N","O","P","Q","R","S","T","U","V","W","X","Y","Z","_","a","b","c","d","e","f","g","h","i","j","k","l","m","n","o","p","q","r","s","t","u","v","w","x","y","z">>

UPPERCASE ==
    <<"A","B","C","D","E","F","G","H","I","J","K","L","M","N","O","P","Q","R","S","T","U","V","W","X","Y","Z">>

LOWERCASE ==
    <<"a","b","c","d","e","f","g","h","i","j","k","l","m","n","o","p","q","r","s","t","u","v","w","x","y","z">>

Ord(c) ==
    CHOOSE i \in 1..Len(CHARS) : CHARS[i] = c

\* s < t for two str (lexicographic by code point, a proper prefix first)
StrLess(s, t) ==
    \E i \in 1..Len(t) :
        /\ \A j \in 1..(i - 1) : j <= Len(s) /\ s[j] = t[j]
        /\ (i > Len(s) \/ Ord(s[i]) < Ord(t[i]))

\* s < t for two tuples of str (a groupby key)
KeyLess(s, t) ==
    \E i \in 1..Len(t) :
        /\ \A j \in 1..(i - 1) : j <= Len(s) /\ s[j] = t[j]
        /\ (i > Len(s) \/ StrLess(s[i], t[i]))

ToLower(c) ==
    IF \E i \in 1..Len(UPPERCASE) : UPPERCASE[i] = c
    THEN LOWERCASE[CHOOSE i \in 1..Len(UPPERCASE) : UPPERCASE[i] = c]
    ELSE c

lower(s) ==
    [i \in 1..Len(s) |-> ToLower(s[i])]

\* k in r
Contains(k, r) ==
    \E i \in 0..(Len(r) - Len(k)) : \A j \in 1..Len(k) : r[i + j] = k[j]

-----------------------------------------------------------------------------
(* Sequences *)

Range(s) ==
    {s[i] : i \in 1..Len(s)}

Min(a, b) ==
    IF a <= b THEN a ELSE b

\* the elements of s at the positions in idx, in their order in s
Pick(s, idx) ==
    LET pos(i) == Cardinality({j \in idx : j <= i})
    IN  [p \in 1..Cardinality(idx) |-> s[CHOOSE i \in idx : pos(i) = p]]

\* t < u for two tuples of integers of the same length (lexicographic)
TupleLess(t, u) ==
    \E i \in 1..Len(t) : (\A j \in 1..(i - 1) : t[j] = u[j]) /\ t[i] < u[i]

\* a stable sort of s by the keys key[i] (tuples of integers), ascending:
\* elements of equal key keep their order (list.sort, and pandas'
\* sort_values on several columns)
StableSort(s, key) ==
    LET n == Len(s)
        rank(i) == Cardinality({j \in 1..n :
                        \/ TupleLess(key[j], key[i])
                        \/ (key[j] = key[i] /\ j < i)})
    IN  [p \in 1..n |-> s[CHOOSE i \in 1..n : rank(i) = p - 1]]

\* sorted(S) for a set S of str
sorted_str(S) ==
    LET rank(x) == Cardinality({y \in S : StrLess(y, x)})
    IN  [p \in 1..Cardinality(S) |-> CHOOSE x \in S : rank(x) = p - 1]

\* sorted(S) for a set S of tuples of str
sorted_keys(S) ==
    LET rank(x) == Cardinality({y \in S : KeyLess(y, x)})
    IN  [p \in 1..Cardinality(S) |-> CHOOSE x \in S : rank(x) = p - 1]

\* sorted(S) for a set S of tuples of integers of one length
sorted_tuples(S) ==
    LET rank(x) == Cardinality({y \in S : TupleLess(y, x)})
    IN  [p \in 1..Cardinality(S) |-> CHOOSE x \in S : rank(x) = p - 1]

RECURSIVE Concat(_)
Concat(ss) ==
    IF ss = <<>> THEN <<>> ELSE Head(ss) \o Concat(Tail(ss))

\* itertools.combinations(s, k): the k-tuples of s at increasing positions,
\* in lexicographic order of the positions
combinations(s, k) ==
    LET n   == Len(s)
        idx == {t \in [1..k -> 1..n] : \A i \in 1..(k - 1) : t[i] < t[i + 1]}
        ord == sorted_tuples(idx)
    IN  [p \in 1..Len(ord) |-> [i \in 1..k |-> s[ord[p][i]]]]

-----------------------------------------------------------------------------
(* Arithmetic on floats, in integers *)

\* ceil(a / b) for a >= 0, b > 0
CeilDiv(a, b) ==
    (a + b - 1) \div b

\* a / b rounded to the nearest integer, a tie to the even one (Python round)
RoundDiv(a, b) ==
    LET q == a \div b
        r == a % b
    IN  IF 2 * r > b \/ (2 * r = b /\ q % 2 = 1) THEN q + 1 ELSE q

\* The binary64 product float(p / 100) * n lies above the integer p * n / 100
\* for these <<p, n>> (0.56 * 25 is 14.000000000000002), so that math.ceil
\* returns one more than p * n / 100. No other <<p, n>> with p in 0..100 and
\* n in 1..49 has a product whose ceiling differs from the exact one.
FloatProductAbove ==
    {<<28, 25>>, <<56, 25>>}

\* math.ceil(float(p / 100) * n)
ceil_mul(p, n) ==
    CeilDiv(p * n, 100) + (IF <<p, n>> \in FloatProductAbove THEN 1 ELSE 0)

-----------------------------------------------------------------------------
(* brb_core/sod_rules.py *)

HIGH_RISK_KEYWORDS ==
    { <<"a","d","m","i","n">>,
      <<"r","o","o","t">>,
      <<"p","r","i","v">>,
      <<"o","w","n","e","r">>,
      <<"d","e","l","e","t","e">>,
      <<"w","r","i","t","e">>,
      <<"m","o","d","i","f","y">>,
      <<"u","p","d","a","t","e">>,
      <<"p","r","o","d">>,
      <<"s","u","d","o">>,
      <<"g","r","a","n","t">> }

FINANCE_KEYWORDS ==
    { <<"f","i","n">>,
      <<"p","a","y","m","e","n","t">>,
      <<"p","a","y">>,
      <<"i","n","v","o","i","c","e">>,
      <<"g","l">>,
      <<"s","a","p">>,
      <<"t","r","e","a","s","u","r","y">>,
      <<"s","e","t","t","l","e">>,
      <<"r","e","c","o","n">> }

APPROVAL_KEYWORDS ==
    { <<"a","p","p","r","o","v","e">>,
      <<"a","p","p","r","o","v","a","l">>,
      <<"a","u","t","h","o","r","i","s","e">>,
      <<"a","u","t","h","o","r","i","z","e">>,
      <<"s","i","g","n","o","f","f">>,
      <<"c","e","r","t","i","f","y">> }

\* rule.get(k, default)
Get(rule, k, default) ==
    IF k \in DOMAIN rule THEN rule[k] ELSE default

\* str.upper() on the spellings of a severity
upper(sev) ==
    CASE sev \in {"HIGH", "High", "high"}       -> "HIGH"
      [] sev \in {"MEDIUM", "Medium", "medium"} -> "MEDIUM"
      [] sev \in {"LOW", "Low", "low"}          -> "LOW"
      [] OTHER                                  -> sev

\* SEVERITY_RANK.get(severity, 2)
SEVERITY_RANK(sev) ==
    CASE sev = "LOW"    -> 1
      [] sev = "MEDIUM" -> 2
      [] sev = "HIGH"   -> 3
      [] OTHER          -> 2

\* detect_sod_conflicts without the sort by severity: conflicts in rule order
detect_sod_conflicts_unsorted(rules, candidate_roles) ==
    LET matched == SelectSeq(rules, LAMBDA rule : rule.a \in Range(candidate_roles)
                                                  /\ rule.b \in Range(candidate_roles))
    IN  [p \in 1..Len(matched) |->
            [a        |-> matched[p].a,
             b        |-> matched[p].b,
             severity |-> upper(Get(matched[p], "severity", "MEDIUM")),
             reason   |-> Get(matched[p], "reason", "")]]

\* detect_sod_conflicts(candidate_roles) against the rule table `rules`
detect_sod_conflicts(rules, candidate_roles) ==
    LET roles == Range(candidate_roles)
        hit   == {i \in 1..Len(rules) : rules[i].a \in roles /\ rules[i].b \in roles}
        matched == Pick(rules, hit)
        conflicts ==
            [p \in 1..Len(matched) |->
                LET rule == matched[p]
                IN  [a        |-> rule.a,
                     b        |-> rule.b,
                     severity |-> upper(Get(rule, "severity", "MEDIUM")),
                     reason   |-> Get(rule, "reason", "")]]
    IN  StableSort(conflicts,
                   [p \in 1..Len(conflicts) |-> <<-SEVERITY_RANK(conflicts[p].severity)>>])

\* the loop of apply_sod_policy over conflicts[i..]: roles and removed after it
RECURSIVE block_high_loop(_, _, _, _)
block_high_loop(conflicts, i, roles, removed) ==
    IF i > Len(conflicts) THEN [roles |-> roles, removed |-> removed]
    ELSE IF conflicts[i].severity = "HIGH" /\ conflicts[i].b \in roles
         THEN block_high_loop(conflicts, i + 1, roles \ {conflicts[i].b},
                              removed \cup {conflicts[i].b})
         ELSE block_high_loop(conflicts, i + 1, roles, removed)

\* apply_sod_policy that removes for HIGH conflicts whatever block_high is
apply_sod_policy_unconditional(rules, candidate_roles, block_high) ==
    LET roles     == Range(candidate_roles)
        conflicts == detect_sod_conflicts(rules, candidate_roles)
        after     == block_high_loop(conflicts, 1, roles, {})
    IN  [kept      |-> sorted_str(after.roles),
         removed   |-> sorted_str(after.removed),
         conflicts |-> conflicts]

\* apply_sod_policy(candidate_roles, block_high): kept_roles, removed_roles
\* (both sorted) and conflicts
apply_sod_policy(rules, candidate_roles, block_high) ==
    LET roles     == Range(candidate_roles)
        conflicts == detect_sod_conflicts(rules, sorted_str(roles))
        after     == IF block_high
                     THEN block_high_loop(conflicts, 1, roles, {})
                     ELSE [roles |-> roles, removed |-> {}]
    IN  [kept      |-> sorted_str(after.roles),
         removed   |-> sorted_str(after.removed),
         conflicts |-> conflicts]

keyword_flags(role) ==
    LET r == lower(role)
    IN  [high_priv |-> \E k \in HIGH_RISK_KEYWORDS : Contains(k, r),
         finance   |-> \E k \in FINANCE_KEYWORDS : Contains(k, r),
         approval  |-> \E k \in APPROVAL_KEYWORDS : Contains(k, r)]

RATIONALE_MAKER_CHECKER ==
    "Heuristic: approval combined with finance/privileged access (maker-checker risk)."

RATIONALE_PRIVILEGED ==
    "Heuristic: multiple privileged roles combined in same bundle."

\* the conflicts the heuristic raises for the pair a, b (a before b), in the
\* order the code appends them
heuristic_pair(a, b) ==
    LET fa == keyword_flags(a)
        fb == keyword_flags(b)
        maker == IF \/ (fa.approval /\ (fb.finance \/ fb.high_priv))
                    \/ (fb.approval /\ (fa.finance \/ fa.high_priv))
                 THEN << [pair      |-> <<a, b>>,
                          severity  |-> IF fa.finance \/ fb.finance THEN "HIGH" ELSE "MEDIUM",
                          rationale |-> RATIONALE_MAKER_CHECKER] >>
                 ELSE <<>>
        priv  == IF fa.high_priv /\ fb.high_priv
                 THEN << [pair      |-> <<a, b>>,
                          severity  |-> "MEDIUM",
                          rationale |-> RATIONALE_PRIVILEGED] >>
                 ELSE <<>>
    IN  maker \o priv

\* the first occurrence of every element of s, in order
Dedup(s) ==
    Pick(s, {i \in 1..Len(s) : \A j \in 1..(i - 1) : s[j] # s[i]})

\* the severity of the first conflict of the list as the overall risk
max_severity_of_first(conflicts) ==
    IF conflicts = <<>> THEN "LOW" ELSE conflicts[1].severity

\* the overall risk of a list of conflicts
max_severity(conflicts) ==
    IF \E i \in 1..Len(conflicts) : conflicts[i].severity = "HIGH" THEN "HIGH"
    ELSE IF \E i \in 1..Len(conflicts) : conflicts[i].severity = "MEDIUM" THEN "MEDIUM"
    ELSE "LOW"

\* assess_bundle_sod that pairs the roles in the order they were passed
assess_bundle_sod_in_order(rules, bundle_roles) ==
    LET roles == Dedup(bundle_roles)
        rule_conflicts == detect_sod_conflicts(rules, roles)
        explicit ==
            [p \in 1..Len(rule_conflicts) |->
                [pair      |-> <<rule_conflicts[p].a, rule_conflicts[p].b>>,
                 severity  |-> rule_conflicts[p].severity,
                 rationale |-> IF rule_conflicts[p].reason # ""
                               THEN rule_conflicts[p].reason
                               ELSE "Policy rule conflict"]]
        n     == Len(roles)
        pairs == combinations([i \in 1..n |-> i], 2)
        heuristic ==
            Concat([p \in 1..Len(pairs) |-> heuristic_pair(roles[pairs[p][1]], roles[pairs[p][2]])])
        conflicts == Dedup(explicit \o heuristic)
    IN  [risk |-> max_severity(conflicts), conflicts |-> conflicts]

\* assess_bundle_sod(bundle_roles) against the rule table `rules`
assess_bundle_sod(rules, bundle_roles) ==
    LET roles == sorted_str(Range(bundle_roles))
        rule_conflicts == detect_sod_conflicts(rules, roles)
        explicit ==
            [p \in 1..Len(rule_conflicts) |->
                [pair      |-> <<rule_conflicts[p].a, rule_conflicts[p].b>>,
                 severity  |-> rule_conflicts[p].severity,
                 rationale |-> IF rule_conflicts[p].reason # ""
                               THEN rule_conflicts[p].reason
                               ELSE "Policy rule conflict"]]
        n     == Len(roles)
        pairs == combinations([i \in 1..n |-> i], 2)
        heuristic ==
            Concat([p \in 1..Len(pairs) |-> heuristic_pair(roles[pairs[p][1]], roles[pairs[p][2]])])
        conflicts == Dedup(explicit \o heuristic)
    IN  [risk |-> max_severity(conflicts), conflicts |-> conflicts]

-----------------------------------------------------------------------------
(* DataFrames *)

Frame(columns, rows) ==
    [raised |-> FALSE, columns |-> columns, rows |-> rows]

\* an exception leaving the call
Raised(error) ==
    [raised |-> TRUE, error |-> error]

\* df.empty: no rows or no columns
IsEmpty(d) ==
    d.rows = <<>> \/ d.columns = <<>>

\* the rows of d whose values in the columns cols are key, in their order
RowsOf(d, cols, key) ==
    SelectSeq(d.rows, LAMBDA row : \A i \in 1..Len(cols) : row[cols[i]] = key[i])

\* df.groupby(cols): the group keys in ascending order
GroupKeys(d, cols) ==
    sorted_keys({[i \in 1..Len(cols) |-> row[cols[i]]] : row \in Range(d.rows)})

-----------------------------------------------------------------------------
(* brb_core/bundling.py *)

\* confidence_tier with strict comparisons
confidence_tier_strict(coverage_pct) ==
    IF coverage_pct > 8000 THEN "STRONG"
    ELSE IF coverage_pct > 6000 THEN "MEDIUM"
    ELSE "WEAK"

confidence_tier(coverage_pct) ==
    IF coverage_pct >= 8000 THEN "STRONG"
    ELSE IF coverage_pct >= 6000 THEN "MEDIUM"
    ELSE "WEAK"

\* user -> set of the user's roles, from the rows of one group
build_user_role_map(gdf) ==
    [user \in {row["user_id"] : row \in Range(gdf)} |->
        {row["ar_role_name"] : row \in {r \in Range(gdf) : r["user_id"] = user}}]

\* role -> number of users holding it
count_singles(user_roles) ==
    [r \in UNION {user_roles[u] : u \in DOMAIN user_roles} |->
        Cardinality({u \in DOMAIN user_roles : r \in user_roles[u]})]

\* the candidates of size k, each with the number of users holding its roles
\* and no other role
count_itemsets_k_exact(user_roles, frequent_items, k) ==
    LET candidates == combinations(sorted_str(Range(frequent_items)), k)
    IN  [p \in 1..Len(candidates) |->
            <<candidates[p],
              Cardinality({u \in DOMAIN user_roles : Range(candidates[p]) = user_roles[u]})>>]

\* the candidates of size k, in order, each with the number of users holding
\* all of its roles: a sequence of <<candidate, count>>
count_itemsets_k(user_roles, frequent_items, k) ==
    LET candidates == combinations(sorted_str(Range(frequent_items)), k)
    IN  [p \in 1..Len(candidates) |->
            <<candidates[p],
              Cardinality({u \in DOMAIN user_roles : Range(candidates[p]) \subseteq user_roles[u]})>>]

\* group_too_small with the comparison off by one
group_too_small_off_by_one(n_users, min_group_size) ==
    n_users < min_group_size - 1

\* `if n_users < min_group_size: continue`
group_too_small(n_users, min_group_size) ==
    n_users < min_group_size

\* `if covered < min_itemset_count: continue`
itemset_rejected(covered, min_itemset_count) ==
    covered < min_itemset_count

\* the dynamic itemset support of a group of n_users users
effective_support(min_itemset_support, n_users) ==
    IF n_users <= 12 THEN Min(min_itemset_support, 60)
    ELSE IF n_users <= 25 THEN Min(min_itemset_support, 65)
    ELSE min_itemset_support

\* frequent_singles without the threshold
frequent_singles_unfiltered(role_counts, min_role_count) ==
    sorted_str(DOMAIN role_counts)

\* sorted([r for r, c in role_counts.items() if c >= min_role_count])
frequent_singles(role_counts, min_role_count) ==
    sorted_str({r \in DOMAIN role_counts : role_counts[r] >= min_role_count})

\* coverage truncated, not rounded
coverage_truncated(covered, n_users) ==
    (10000 * covered) \div n_users

\* round(covered / n_users * 100, 2)
coverage(covered, n_users) ==
    RoundDiv(10000 * covered, n_users)

FIXED_COLS ==
    <<"bundle_roles", "bundle_size", "users_in_group", "users_covered", "coverage_pct",
      "confidence_tier", "requested_min_itemset_support", "effective_itemset_support",
      "min_itemset_count", "explain", "sod_risk", "sod_conflict_count", "sod_conflicts">>

\* the suggestion appended for an itemset of size k covered by `covered` users
suggestion(rules, key_map, a, n_users, eff, min_itemset_count, k, itemset, covered) ==
    LET coverage_pct == coverage(covered, n_users)
        sod == assess_bundle_sod(rules, itemset)
    IN  key_map @@
        [bundle_roles                  |-> itemset,
         bundle_size                   |-> k,
         users_in_group                |-> n_users,
         users_covered                 |-> covered,
         coverage_pct                  |-> coverage_pct,
         confidence_tier               |-> confidence_tier(coverage_pct),
         requested_min_itemset_support |-> a.min_itemset_support,
         effective_itemset_support     |-> eff,
         min_itemset_count             |-> min_itemset_count,
         explain                       |-> <<covered, n_users, coverage_pct,
                                             a.min_itemset_support, eff, min_itemset_count,
                                             sod.risk, Len(sod.conflicts)>>,
         sod_risk                      |-> sod.risk,
         sod_conflict_count            |-> Len(sod.conflicts),
         sod_conflicts                 |-> sod.conflicts]

\* the suggestions of size k of one group, in the order they are appended
suggestions_k(rules, key_map, a, user_roles, frequent_roles, eff, min_itemset_count, k) ==
    LET itemset_counts == count_itemsets_k(user_roles, frequent_roles, k)
        kept == {p \in 1..Len(itemset_counts) :
                    ~itemset_rejected(itemset_counts[p][2], min_itemset_count)}
        n_users == Cardinality(DOMAIN user_roles)
        passed == Pick(itemset_counts, kept)
    IN  [q \in 1..Len(passed) |->
            suggestion(rules, key_map, a, n_users, eff, min_itemset_count, k,
                       passed[q][1], passed[q][2])]

\* one iteration of the loop over the groups: the suggestions of the group
group_suggestions(d, rules, a, group_key) ==
    LET gdf        == RowsOf(d, a.group_cols, group_key)
        user_roles == build_user_role_map(gdf)
        n_users    == Cardinality(DOMAIN user_roles)
        eff        == effective_support(a.min_itemset_support, n_users)
        min_role_count    == ceil_mul(a.min_role_support, n_users)
        min_itemset_count == ceil_mul(eff, n_users)
        frequent_roles    == frequent_singles(count_singles(user_roles), min_role_count)
        key_map    == [c \in Range(a.group_cols) |->
                          group_key[CHOOSE i \in 1..Len(a.group_cols) : a.group_cols[i] = c]]
        top_k      == Min(a.max_k, Len(frequent_roles))
    IN  IF group_too_small(n_users, a.min_group_size) THEN <<>>
        ELSE IF Len(frequent_roles) < 2 THEN <<>>
        ELSE Concat([i \in 1..(top_k - 1) |->
                        suggestions_k(rules, key_map, a, user_roles, frequent_roles,
                                      eff, min_itemset_count, i + 1)])

tier_rank(tier) ==
    CASE tier = "STRONG" -> 0
      [] tier = "MEDIUM" -> 1
      [] tier = "WEAK"   -> 2
      [] OTHER           -> 9

sod_rank(risk) ==
    CASE risk = "NONE"   -> 0
      [] risk = "LOW"    -> 1
      [] risk = "MEDIUM" -> 2
      [] risk = "HIGH"   -> 3
      [] OTHER           -> 9

\* the key of sort_values(by=[tier_rank, sod_rank, coverage_pct, bundle_size],
\* ascending=[True, True, False, False])
sort_key(x) ==
    <<tier_rank(x["confidence_tier"]), sod_rank(x["sod_risk"]),
      -x["coverage_pct"], -x["bundle_size"]>>

\* the suggestions left in the order they were appended
sort_suggestions_skipped(suggestions) ==
    suggestions

sort_suggestions(suggestions) ==
    StableSort(suggestions, [p \in 1..Len(suggestions) |-> sort_key(suggestions[p])])

\* missing_columns that forgets the group columns
missing_columns_without_groups(d, group_cols) ==
    {"user_id", "ar_role_name"} \ Range(d.columns)

\* required_cols - set(df.columns)
missing_columns(d, group_cols) ==
    ({"user_id", "ar_role_name"} \cup Range(group_cols)) \ Range(d.columns)

\* suggest_itemsets(df, group_cols, min_role_support, min_itemset_support,
\*                  max_k, min_group_size), with SOD_RULES = rules
suggest_itemsets(d, rules, a) ==
    LET expected_cols == a.group_cols \o FIXED_COLS
    IN  IF IsEmpty(d) THEN Frame(expected_cols, <<>>)
        ELSE IF missing_columns(d, a.group_cols) # {} THEN Frame(expected_cols, <<>>)
        ELSE IF ~(({"user_id", "ar_role_name"} \cup Range(a.group_cols))
                      \subseteq Range(d.columns))
        THEN Raised("KeyError")
        ELSE LET keys == GroupKeys(d, a.group_cols)
                 suggestions ==
                     Concat([g \in 1..Len(keys) |-> group_suggestions(d, rules, a, keys[g])])
             IN  IF suggestions = <<>> THEN Frame(expected_cols, <<>>)
                 ELSE Frame(expected_cols, sort_suggestions(suggestions))

-----------------------------------------------------------------------------
(* brb_core/metrics.py *)

\* df.groupby(cols) or df[col] on a column the DataFrame lacks raises KeyError
HasColumns(d, cols) ==
    cols \subseteq Range(d.columns)

\* the distinct users of a set of rows
nunique_users(rows) ==
    {row["user_id"] : row \in rows}

\* the key of sort_values(group_cols + ["role_coverage_pct"],
\* ascending=[True] * len(group_cols) + [False]): the place of the row's
\* group among the sorted group keys, then the coverage, descending
usage_key(keys, group_cols, x) ==
    <<CHOOSE g \in 1..Len(keys) : keys[g] = [i \in 1..Len(group_cols) |-> x[group_cols[i]]],
      -x["role_coverage_pct"]>>

\* role_usage_metrics(df, group_cols)
role_usage_metrics(d, group_cols) ==
    IF ~HasColumns(d, Range(group_cols) \cup {"user_id", "ar_role_name"})
    THEN Raised("KeyError")
    ELSE LET keys == GroupKeys(d, group_cols)
             group_rows(key) ==
                 LET gdf   == Range(RowsOf(d, group_cols, key))
                     roles == sorted_str({row["ar_role_name"] : row \in gdf})
                     users_in_group == Cardinality(nunique_users(gdf))
                     key_map == [c \in Range(group_cols) |->
                                    key[CHOOSE i \in 1..Len(group_cols) : group_cols[i] = c]]
                 IN  [p \in 1..Len(roles) |->
                        LET users_with_role ==
                                Cardinality(nunique_users({row \in gdf : row["ar_role_name"] = roles[p]}))
                        IN  key_map @@
                            [ar_role_name      |-> roles[p],
                             users_with_role   |-> users_with_role,
                             users_in_group    |-> users_in_group,
                             role_coverage_pct |-> RoundDiv(10000 * users_with_role, users_in_group)]]
             merged == Concat([g \in 1..Len(keys) |-> group_rows(keys[g])])
         IN  Frame(group_cols \o <<"ar_role_name", "users_with_role", "users_in_group",
                                   "role_coverage_pct">>,
                   StableSort(merged, [p \in 1..Len(merged) |->
                                          usage_key(keys, group_cols, merged[p])]))

\* the first value of column col among the rows (in order) of user
first_value(d, user, col) ==
    LET idx == {i \in 1..Len(d.rows) : d.rows[i]["user_id"] = user}
    IN  d.rows[CHOOSE i \in idx : \A j \in idx : i <= j][col]

\* user_access_summary(df). sort_values("role_count", ascending=False) sorts
\* on one column with an unstable sort: the rows come in blocks of equal
\* role_count, greatest first, and the order inside a block is not fixed;
\* `rows` is the sequence of the blocks, each a set of rows.
user_access_summary(d) ==
    IF ~HasColumns(d, {"user_id", "ar_role_name", "department", "job_code",
                       "supervisor_level6", "assignment_type"})
    THEN Raised("KeyError")
    ELSE LET users == nunique_users(Range(d.rows))
             summary(user) ==
                 LET mine == {row \in Range(d.rows) : row["user_id"] = user}
                 IN  [user_id           |-> user,
                      department        |-> first_value(d, user, "department"),
                      job_code          |-> first_value(d, user, "job_code"),
                      supervisor_level6 |-> first_value(d, user, "supervisor_level6"),
                      assignment_types  |-> sorted_str({row["assignment_type"] : row \in mine}),
                      role_count        |-> Cardinality({row["ar_role_name"] : row \in mine})]
             merged == {summary(user) : user \in users}
             counts == sorted_tuples({<<-row.role_count>> : row \in merged})
         IN  Frame(<<"user_id", "department", "job_code", "supervisor_level6",
                     "assignment_types", "role_count">>,
                   [b \in 1..Len(counts) |-> {row \in merged : row.role_count = -counts[b][1]}])

\* the key of sort_values(["jaccard", "common_users"], ascending=False)
overlap_key(x) ==
    <<-x.jaccard, -x.common_users>>

\* every pair of roles, whatever number of users it shares
overlap_results_unfiltered(role_to_users, min_common_users) ==
    LET roles == sorted_str(DOMAIN role_to_users)
        pairs == combinations([i \in 1..Len(roles) |-> i], 2)
    IN  [q \in 1..Len(pairs) |->
            LET a     == roles[pairs[q][1]]
                b     == roles[pairs[q][2]]
                inter == Cardinality(role_to_users[a] \cap role_to_users[b])
                union == Cardinality(role_to_users[a] \cup role_to_users[b])
            IN  [role_a       |-> a,
                 role_b       |-> b,
                 common_users |-> inter,
                 union_users  |-> union,
                 jaccard      |-> IF union # 0 THEN RoundDiv(10000 * inter, union) ELSE 0]]

\* the pairs of role_overlap_jaccard that share at least min_common_users
\* users, in the order they are appended
overlap_results(role_to_users, min_common_users) ==
    LET roles == sorted_str(DOMAIN role_to_users)
        pairs == combinations([i \in 1..Len(roles) |-> i], 2)
        kept  == {p \in 1..Len(pairs) :
                    ~(Cardinality(role_to_users[roles[pairs[p][1]]]
                                  \cap role_to_users[roles[pairs[p][2]]]) < min_common_users)}
        passed == Pick(pairs, kept)
    IN  [q \in 1..Len(passed) |->
            LET a     == roles[passed[q][1]]
                b     == roles[passed[q][2]]
                inter == Cardinality(role_to_users[a] \cap role_to_users[b])
                union == Cardinality(role_to_users[a] \cup role_to_users[b])
            IN  [role_a       |-> a,
                 role_b       |-> b,
                 common_users |-> inter,
                 union_users  |-> union,
                 jaccard      |-> IF union # 0 THEN RoundDiv(10000 * inter, union) ELSE 0]]

\* role_overlap_jaccard(df, min_common_users, top_n). The loop over the
\* groups reads user_id only when there is a group; an empty list of results
\* makes a DataFrame without columns, which is returned as it is.
role_overlap_jaccard(d, min_common_users, top_n) ==
    IF ~HasColumns(d, {"ar_role_name"}) THEN Raised("KeyError")
    ELSE IF d.rows # <<>> /\ ~HasColumns(d, {"user_id"}) THEN Raised("KeyError")
    ELSE LET role_to_users ==
                 [role \in {row["ar_role_name"] : row \in Range(d.rows)} |->
                     nunique_users({row \in Range(d.rows) : row["ar_role_name"] = role})]
             results == overlap_results(role_to_users, min_common_users)
             sorted  == StableSort(results, [p \in 1..Len(results) |-> overlap_key(results[p])])
         IN  IF results = <<>> THEN Frame(<<>>, <<>>)
             ELSE Frame(<<"role_a", "role_b", "common_users", "union_users", "jaccard">>,
                        SubSeq(sorted, 1, Min(top_n, Len(sorted))))

-----------------------------------------------------------------------------
(* brb_core/new_joiner.py *)

\* the role dropped for a pair: always the second one
drop_second(a, b, role_strength) ==
    b

\* drop = a if sa < sb else b if sb < sa else b, with role_strength.get(r, 0)
drop_weaker(a, b, role_strength) ==
    LET sa == IF a \in DOMAIN role_strength THEN role_strength[a] ELSE 0
        sb == IF b \in DOMAIN role_strength THEN role_strength[b] ELSE 0
    IN  IF sa < sb THEN a ELSE b

\* the loop of _remove_roles_for_high_conflicts over high_conflict_pairs[i..]
RECURSIVE remove_loop(_, _, _, _, _)
remove_loop(high_conflict_pairs, i, kept, removed, role_strength) ==
    IF i > Len(high_conflict_pairs) THEN [kept |-> kept, removed |-> removed]
    ELSE LET a == high_conflict_pairs[i][1]
             b == high_conflict_pairs[i][2]
             drop == drop_weaker(a, b, role_strength)
         IN  IF a \in kept /\ b \in kept
             THEN remove_loop(high_conflict_pairs, i + 1, kept \ {drop},
                              removed \cup {drop}, role_strength)
             ELSE remove_loop(high_conflict_pairs, i + 1, kept, removed, role_strength)

\* the removal that deals with the first pair of the list only
remove_roles_for_first_pair(roles, high_conflict_pairs, role_strength) ==
    LET after == remove_loop(SubSeq(high_conflict_pairs, 1, Min(1, Len(high_conflict_pairs))),
                             1, Range(roles), {}, role_strength)
    IN  [kept |-> sorted_str(after.kept), removed |-> sorted_str(after.removed)]

\* _remove_roles_for_high_conflicts(roles, high_conflict_pairs, role_strength):
\* sorted(kept), sorted(removed)
remove_roles_for_high_conflicts(roles, high_conflict_pairs, role_strength) ==
    LET after == remove_loop(high_conflict_pairs, 1, Range(roles), {}, role_strength)
    IN  [kept |-> sorted_str(after.kept), removed |-> sorted_str(after.removed)]

\* Python None, which is no str
None ==
    <<"None">>

\* str.strip() of leading and trailing spaces
strip(x) ==
    LET inked == {i \in 1..Len(x) : x[i] # " "}
    IN  IF inked = {} THEN <<>>
        ELSE SubSeq(x, CHOOSE i \in inked : \A j \in inked : i <= j,
                       CHOOSE i \in inked : \A j \in inked : i >= j)

\* x is not None and x.strip()
provided(x) ==
    x # None /\ strip(x) # <<>>

\* x or ""
or_empty(x) ==
    IF x = None THEN <<>> ELSE x

\* the cohort filter that leaves the department out
cohort_without_department(d, a) ==
    LET by_job == SelectSeq(d.rows, LAMBDA row : row["job_code"] = a.job_code)
    IN  IF provided(a.supervisor_level6)
        THEN SelectSeq(by_job, LAMBDA row :
                           row["supervisor_level6"] = strip(a.supervisor_level6))
        ELSE by_job

\* the cohort: the rows of the job code, and of the supervisor and of the
\* department when they are provided
cohort_rows(d, a) ==
    LET by_job == SelectSeq(d.rows, LAMBDA row : row["job_code"] = a.job_code)
        by_sup == IF provided(a.supervisor_level6)
                  THEN SelectSeq(by_job, LAMBDA row :
                                     row["supervisor_level6"] = strip(a.supervisor_level6))
                  ELSE by_job
    IN  IF provided(a.department)
        THEN SelectSeq(by_sup, LAMBDA row : row["department"] = strip(a.department))
        ELSE by_sup

\* cohort.groupby("ar_role_name")["user_id"].nunique(): role -> users_with_role
cohort_role_counts(cohort) ==
    [role \in {row["ar_role_name"] : row \in Range(cohort)} |->
        Cardinality({row["user_id"] : row \in {r \in Range(cohort) : r["ar_role_name"] = role}})]

\* sort_values("users_with_role", ascending=False) sorts on one column with
\* an unstable sort: the orders of the roles it can leave, greatest count
\* first, roles of equal count in any order
role_count_orders(d, a) ==
    LET counts == cohort_role_counts(cohort_rows(d, a))
        n      == Cardinality(DOMAIN counts)
    IN  {order \in [1..n -> DOMAIN counts] :
            /\ \A i, j \in 1..n : i # j => order[i] # order[j]
            /\ \A i \in 1..(n - 1) : counts[order[i]] >= counts[order[i + 1]]}

\* head(top_n) of the sorted roles, taken before the support filter
eligible_unfiltered(order, counts, min_count, top_n) ==
    SubSeq(order, 1, Min(top_n, Len(order)))

\* role_counts[role_counts["users_with_role"] >= min_count].head(top_n)
eligible_roles(order, counts, min_count, top_n) ==
    LET passed == SelectSeq(order, LAMBDA role : counts[role] >= min_count)
    IN  SubSeq(passed, 1, Min(top_n, Len(passed)))

\* candidate_roles of the call on d with arguments a, the sort leaving `order`
candidate_roles(d, a, order) ==
    LET cohort == cohort_rows(d, a)
        users_in_cohort == Cardinality(nunique_users(Range(cohort)))
    IN  IF users_in_cohort = 0 THEN <<>>
        ELSE eligible_roles(order, cohort_role_counts(cohort),
                            ceil_mul(a.min_role_support, users_in_cohort), a.top_n)

\* the heuristic HIGH enforcement that reports the assessment made before it
enforce_heuristic_stale(rules, kept_roles, heuristic, strength, block_high_sod) ==
    LET high == SelectSeq(heuristic.conflicts, LAMBDA c : c.severity = "HIGH")
        high_pairs == [p \in 1..Len(high) |-> high[p].pair]
    IN  IF block_high_sod /\ high_pairs # <<>>
        THEN LET after == remove_roles_for_high_conflicts(kept_roles, high_pairs, strength)
             IN  [kept |-> after.kept, removed |-> after.removed, heuristic |-> heuristic]
        ELSE [kept |-> kept_roles, removed |-> <<>>, heuristic |-> heuristic]

\* step (3) of the call: kept_roles, removed_heuristic and heuristic after it
enforce_heuristic(rules, kept_roles, heuristic, strength, block_high_sod) ==
    LET high == SelectSeq(heuristic.conflicts, LAMBDA c : c.severity = "HIGH")
        high_pairs == [p \in 1..Len(high) |-> high[p].pair]
    IN  IF block_high_sod /\ heuristic.conflicts # <<>> /\ high_pairs # <<>>
        THEN LET after == remove_roles_for_high_conflicts(kept_roles, high_pairs, strength)
             IN  [kept      |-> after.kept,
                  removed   |-> after.removed,
                  heuristic |-> assess_bundle_sod(rules, after.kept)]
        ELSE [kept |-> kept_roles, removed |-> <<>>, heuristic |-> heuristic]

NO_USERS_FOUND ==
    "No users found for this cohort."

SENTINEL_COLS ==
    <<"job_code", "supervisor_level6", "department", "users_in_cohort", "min_role_support",
      "ar_role_name", "users_with_role", "coverage_pct", "reason", "sod_risk",
      "sod_conflict_count", "sod_conflicts", "sod_removed_roles", "sod_policy">>

RECOMMEND_COLS ==
    <<"job_code", "users_in_cohort", "min_role_support", "supervisor_level6", "department",
      "ar_role_name", "users_with_role", "coverage_pct", "reason", "sod_risk",
      "sod_conflict_count", "sod_conflicts", "sod_removed_roles", "sod_policy">>

\* recommend_access_for_new_joiner(df, **a) against the rule table `rules`,
\* the sort of the role counts leaving `order`. sod_removed_roles is the list
\* the code joins with ","; reason is the values the code formats.
recommend_access_for_new_joiner(d, rules, a, order) ==
    IF ~HasColumns(d, {"job_code"}
                      \cup (IF provided(a.supervisor_level6) THEN {"supervisor_level6"} ELSE {})
                      \cup (IF provided(a.department) THEN {"department"} ELSE {})
                      \cup {"user_id"})
    THEN Raised("KeyError")
    ELSE
    LET cohort == cohort_rows(d, a)
        users_in_cohort == Cardinality(nunique_users(Range(cohort)))
    IN  IF users_in_cohort = 0
        THEN Frame(SENTINEL_COLS,
                   << [job_code           |-> a.job_code,
                       supervisor_level6  |-> or_empty(a.supervisor_level6),
                       department         |-> or_empty(a.department),
                       users_in_cohort    |-> 0,
                       min_role_support   |-> a.min_role_support,
                       ar_role_name       |-> <<>>,
                       users_with_role    |-> 0,
                       coverage_pct       |-> 0,
                       reason             |-> NO_USERS_FOUND,
                       sod_risk           |-> "LOW",
                       sod_conflict_count |-> 0,
                       sod_conflicts      |-> <<>>,
                       sod_removed_roles  |-> <<>>,
                       sod_policy         |-> a.block_high_sod] >>)
        ELSE IF ~HasColumns(d, {"ar_role_name"}) THEN Raised("KeyError")
        ELSE
        LET counts    == cohort_role_counts(cohort)
            min_count == ceil_mul(a.min_role_support, users_in_cohort)
            eligible  == eligible_roles(order, counts, min_count, a.top_n)
            strength  == [role \in Range(eligible) |-> counts[role]]
            policy    == apply_sod_policy(rules, eligible, a.block_high_sod)
            heuristic == assess_bundle_sod(rules, policy.kept)
            enforced  == enforce_heuristic(rules, policy.kept, heuristic, strength,
                                           a.block_high_sod)
            removed_all == sorted_str(Range(policy.removed) \cup Range(enforced.removed))
            out == SelectSeq(eligible, LAMBDA role : role \in Range(enforced.kept))
        IN  Frame(RECOMMEND_COLS,
                  [i \in 1..Len(out) |->
                      [job_code           |-> a.job_code,
                       users_in_cohort    |-> users_in_cohort,
                       min_role_support   |-> a.min_role_support,
                       supervisor_level6  |-> or_empty(a.supervisor_level6),
                       department         |-> or_empty(a.department),
                       ar_role_name       |-> out[i],
                       users_with_role    |-> counts[out[i]],
                       coverage_pct       |-> coverage(counts[out[i]], users_in_cohort),
                       reason             |-> <<counts[out[i]], users_in_cohort,
                                                coverage(counts[out[i]], users_in_cohort)>>,
                       sod_risk           |-> enforced.heuristic.risk,
                       sod_conflict_count |-> Len(enforced.heuristic.conflicts),
                       sod_conflicts      |-> enforced.heuristic.conflicts,
                       sod_removed_roles  |-> removed_all,
                       sod_policy         |-> a.block_high_sod]])

-----------------------------------------------------------------------------
(* brb_api/services.py *)

\* `if x:` for a filter value: it is neither None nor the empty str
truthy(x) ==
    x # None /\ x # <<>>

\* filter_df(df, supervisor_level6, department, job_code, assignment_type)
filter_df(d, supervisor_level6, department, job_code, assignment_type) ==
    LET wanted == [supervisor_level6 |-> supervisor_level6,
                   department        |-> department,
                   job_code          |-> job_code,
                   assignment_type   |-> assignment_type]
        asked  == {c \in DOMAIN wanted : truthy(wanted[c])}
    IN  IF ~HasColumns(d, asked) THEN Raised("KeyError")
        ELSE Frame(d.columns,
                   SelectSeq(d.rows, LAMBDA row : \A c \in asked : row[c] = wanted[c]))

\* the arguments query_bundles hands to suggest_itemsets
mining_arguments(req) ==
    [group_cols          |-> <<"supervisor_level6", "job_code">>,
     min_role_support    |-> req.min_role_support,
     min_itemset_support |-> req.min_itemset_support,
     max_k               |-> req.max_k,
     min_group_size      |-> req.min_group_size]

\* a row of the bundles passes the filters the request sets
bundle_asked(req, columns, row) ==
    /\ truthy(req.supervisor_level6) => row["supervisor_level6"] = req.supervisor_level6
    /\ truthy(req.job_code) => row["job_code"] = req.job_code
    /\ (truthy(req.assignment_type) /\ "assignment_type" \in Range(columns)) =>
           row["assignment_type"] = req.assignment_type

\* `bundles = bundles[bundles[col] == value]` for each filter of the request
filter_bundles(bundles, req) ==
    IF bundles.raised THEN bundles
    ELSE Frame(bundles.columns,
               SelectSeq(bundles.rows, LAMBDA row : bundle_asked(req, bundles.columns, row)))

\* query_bundles(df, req), with SOD_RULES = rules
query_bundles(d, rules, req) ==
    filter_bundles(suggest_itemsets(d, rules, mining_arguments(req)), req)

\* the helper user_role_map of diagnose_bundles
user_role_map(gdf) ==
    [user \in {row["user_id"] : row \in Range(gdf)} |->
        {row["ar_role_name"] : row \in {r \in Range(gdf) : r["user_id"] = user}}]

\* the grouping of diagnose_bundles
diagnose_group_cols(req) ==
    IF truthy(req.department) THEN <<"supervisor_level6", "job_code", "department">>
    ELSE <<"supervisor_level6", "job_code">>

\* the candidates of size k of one group, in the order of combinations(),
\* each with its covered users and the group's n_users
diagnose_candidates(uroles, frequent_roles, k) ==
    LET cs == combinations(sorted_str(frequent_roles), k)
    IN  [p \in 1..Len(cs) |->
            [roles          |-> cs[p],
             covered        |-> Cardinality({u \in DOMAIN uroles :
                                                Range(cs[p]) \subseteq uroles[u]}),
             users_in_group |-> Cardinality(DOMAIN uroles)]]

\* `if n_users < req.min_group_size`
below_min_size(n_users, min_group_size) ==
    n_users < min_group_size

\* one iteration of the loop over the groups: whether the group is below the
\* minimum size and, if it is not, its role counts and the pairs and triples
\* it has the loop evaluate
diagnose_group(f, group_cols, req, key) ==
    LET uroles      == user_role_map(RowsOf(f, group_cols, key))
        n_users     == Cardinality(DOMAIN uroles)
        role_counts == [r \in UNION {uroles[u] : u \in DOMAIN uroles} |->
                           Cardinality({u \in DOMAIN uroles : r \in uroles[u]})]
        min_role_count == ceil_mul(req.min_role_support, n_users)
        frequent_roles == {r \in DOMAIN role_counts : role_counts[r] >= min_role_count}
        below       == below_min_size(n_users, req.min_group_size)
        few         == Cardinality(frequent_roles) < 2
    IN  [below       |-> below,
         n_users     |-> IF below THEN 0 ELSE n_users,
         role_counts |-> IF below THEN [r \in {} |-> 0] ELSE role_counts,
         pairs       |-> IF below \/ few THEN <<>>
                         ELSE diagnose_candidates(uroles, frequent_roles, 2),
         triples     |-> IF below \/ few THEN <<>>
                         ELSE IF req.max_k >= 3 /\ Cardinality(frequent_roles) >= 3
                         THEN diagnose_candidates(uroles, frequent_roles, 3)
                         ELSE <<>>]

\* best_pair_support = 0.0 and best_pair = None
NO_BEST ==
    [roles |-> None, covered |-> 0, users_in_group |-> 1]

\* the loop that keeps the candidate of the lowest support
RECURSIVE best_loop_lowest(_, _)
best_loop_lowest(candidates, best) ==
    IF candidates = <<>> THEN best
    ELSE LET c == Head(candidates)
         IN  best_loop_lowest(Tail(candidates),
                 IF c.covered * best.users_in_group <= best.covered * c.users_in_group
                 THEN c ELSE best)

\* `sup = covered / n_users; if sup > best_support: best_support = sup;
\* best = (roles, covered, n_users)` over the candidates in order
RECURSIVE best_loop(_, _)
best_loop(candidates, best) ==
    IF candidates = <<>> THEN best
    ELSE LET c == Head(candidates)
         IN  best_loop(Tail(candidates),
                 IF c.covered * best.users_in_group > best.covered * c.users_in_group
                 THEN c ELSE best)

\* round(best_support * 100, 2), in hundredths of a percent
support_pct(best) ==
    RoundDiv(10000 * best.covered, best.users_in_group)

\* `"best_pair": None`: Python None where the value is otherwise a dict
NONE_ENTRY ==
    [None |-> TRUE]

\* out["best_pair"]: None, or the roles, covered and users_in_group
best_entry(best) ==
    IF best.roles = None THEN NONE_ENTRY
    ELSE [roles |-> best.roles, covered |-> best.covered,
          users_in_group |-> best.users_in_group]

\* f"{x:.2%}" of a number of hundredths of a percent
format_pct(p) ==
    ToString(p \div 100) \o "." \o (IF p % 100 < 10 THEN "0" ELSE "")
        \o ToString(p % 100) \o "%"

\* best_support < req.min_itemset_support
support_below(best, min_itemset_support) ==
    100 * best.covered < min_itemset_support * best.users_in_group

\* the list `reasons`: each reason is the sequence of the pieces of its
\* f-string
blocking_reasons(groups_checked, groups_below, best_pair, best_triple, req) ==
    IF groups_checked = 0 THEN << <<"No groups found after filtering.">> >>
    ELSE LET all_below ==
                 IF groups_below = groups_checked
                 THEN << <<"All groups below min_group_size=",
                           ToString(req.min_group_size), ".">> >>
                 ELSE <<>>
             pair_low ==
                 IF support_below(best_pair, req.min_itemset_support)
                 THEN << <<"min_itemset_support too high: best_pair_support=",
                           format_pct(support_pct(best_pair)), " < ",
                           format_pct(100 * req.min_itemset_support)>> >>
                 ELSE <<>>
             triple_low ==
                 IF req.max_k >= 3 /\ support_below(best_triple, req.min_itemset_support)
                 THEN << <<"best_triple_support=",
                           format_pct(support_pct(best_triple)), " < ",
                           format_pct(100 * req.min_itemset_support)>> >>
                 ELSE <<>>
             reasons == all_below \o pair_low \o triple_low
         IN  IF reasons = <<>>
             THEN << <<"Thresholds allow bundles; if count is still low, data may be sparse for selected filters.">> >>
             ELSE reasons

\* " | ".join(reasons): the pieces of the reasons, " | " between two reasons
RECURSIVE join(_)
join(reasons) ==
    IF reasons = <<>> THEN <<>>
    ELSE IF Len(reasons) = 1 THEN Head(reasons)
    ELSE Head(reasons) \o <<" | ">> \o join(Tail(reasons))

\* single_counter[role]: the sum of the role's counts over the groups
RECURSIVE counter_total(_, _)
counter_total(groups, role) ==
    IF groups = <<>> THEN 0
    ELSE (IF role \in DOMAIN Head(groups).role_counts
          THEN Head(groups).role_counts[role] ELSE 0)
         + counter_total(Tail(groups), role)

RECURSIVE users_total(_)
users_total(groups) ==
    IF groups = <<>> THEN 0 ELSE Head(groups).n_users + users_total(Tail(groups))

\* the groups of the filtered dataset, in the order of groupby
diagnose_groups(d, req) ==
    LET f == filter_df(d, req.supervisor_level6, req.department, req.job_code, None)
        group_cols == diagnose_group_cols(req)
        keys == GroupKeys(f, group_cols)
    IN  [g \in 1..Len(keys) |-> diagnose_group(f, group_cols, req, keys[g])]

\* the orders single_counter.most_common() may list the roles in: by count,
\* descending; roles of equal count in the order the counter first met them,
\* which is the iteration order of sets of str
single_orders(d, req) ==
    LET groups == diagnose_groups(d, req)
        roles  == UNION {DOMAIN groups[g].role_counts : g \in 1..Len(groups)}
        n      == Cardinality(roles)
    IN  {order \in [1..n -> roles] :
            /\ \A i, j \in 1..n : i # j => order[i] # order[j]
            /\ \A i \in 1..(n - 1) :
                  counter_total(groups, order[i]) >= counter_total(groups, order[i + 1])}

\* top_singles
top_single_roles(groups, top_n, order) ==
    LET user_count_total == users_total(groups)
    IN  IF user_count_total > 0
        THEN [i \in 1..Min(top_n, Len(order)) |->
                 [role  |-> order[i],
                  approx_support_pct |->
                      RoundDiv(10000 * counter_total(groups, order[i]), user_count_total),
                  count |-> counter_total(groups, order[i])]]
        ELSE <<>>

\* diagnose_bundles(df, req); `order` is the order of the roles in
\* single_counter.most_common()
diagnose_bundles(d, req, order) ==
    IF ~HasColumns(d, Range(diagnose_group_cols(req)))
    THEN Raised("KeyError")
    ELSE IF ~HasColumns(d, {"user_id", "ar_role_name"})
            /\ filter_df(d, req.supervisor_level6, req.department, req.job_code, None).rows # <<>>
    THEN Raised("KeyError")
    ELSE LET groups         == diagnose_groups(d, req)
             groups_checked == Len(groups)
             groups_below   == Cardinality({g \in 1..Len(groups) : groups[g].below})
             best_pair      == best_loop(Concat([g \in 1..Len(groups) |-> groups[g].pairs]),
                                         NO_BEST)
             best_triple    == best_loop(Concat([g \in 1..Len(groups) |-> groups[g].triples]),
                                         NO_BEST)
         IN  [raised                  |-> FALSE,
              groups_checked          |-> groups_checked,
              groups_below_min_size   |-> groups_below,
              min_group_size          |-> req.min_group_size,
              min_role_support        |-> req.min_role_support,
              min_itemset_support     |-> req.min_itemset_support,
              top_single_roles        |-> top_single_roles(groups, req.top_n, order),
              best_pair               |-> best_entry(best_pair),
              best_pair_support_pct   |-> support_pct(best_pair),
              best_triple             |-> best_entry(best_triple),
              best_triple_support_pct |-> support_pct(best_triple),
              blocking_reason         |-> join(blocking_reasons(groups_checked, groups_below,
                                                                best_pair, best_triple, req))]

-----------------------------------------------------------------------------
(* The datasets and arguments the calls are made with *)

GL      == <<"G", "L">>
Root    == <<"R", "o", "o", "t">>
Certify == <<"c", "e", "r", "t", "i", "f", "y">>

\* role names for the other combinations of keyword buckets: none, approval
\* and finance, privileged and finance, privileged and approval, all three
\* (Certify is approval only, GL finance only, Root privileged only)
Viewer          == <<"V", "i", "e", "w">>
Signoff_GL      == <<"S", "i", "g", "n", "o", "f", "f", "_", "G", "L">>
Sudo_GL         == <<"s", "u", "d", "o", "_", "g", "l">>
Prod_Signoff    == <<"P", "R", "O", "D", "_", "s", "i", "g", "n", "o", "f", "f">>
Prod_Signoff_GL == <<"p", "r", "o", "d", "_", "s", "i", "g", "n", "o", "f", "f", "_", "g", "l">>

J1 == <<"J", "1">>
J2 == <<"J", "2">>
S1 == <<"S", "1">>
FIN == <<"F", "I", "N">>

LCM   == <<"l", "c", "m">>
BATCH == <<"b", "a", "t", "c", "h">>

DF_COLUMNS ==
    <<"user_id", "ar_role_name", "assignment_type", "job_code", "department",
      "supervisor_level6">>

\* the number of users who hold only GL (their row is in the extract twice)
MaxSolo == 1

\* the number of suggest_itemsets calls made on the dataset
MaxCalls == 2

\* the rows of one user: one per entry of roles
UserRows(user, roles, job, assignment) ==
    [i \in 1..Len(roles) |->
        [user_id           |-> user,
         ar_role_name      |-> roles[i],
         assignment_type   |-> assignment[i],
         job_code          |-> job,
         department        |-> FIN,
         supervisor_level6 |-> S1]]

\* the rows of a block of `count` users numbered from first + 1, all with
\* the same roles
BlockRows(first, block) ==
    Concat([u \in 1..block.count |->
               UserRows(first + u, block.roles, block.job, block.assignment)])

RECURSIVE Extract(_, _)
Extract(first, blocks) ==
    IF blocks = <<>> THEN <<>>
    ELSE BlockRows(first, Head(blocks)) \o Extract(first + Head(blocks).count, Tail(blocks))

\* an extract: c[1] users of J1 hold the three roles, c[2] hold GL and
\* Root, c[3] hold Certify alone, c[4] hold GL alone; c[5] users of J2
\* hold GL and Root
Dataset(c) ==
    Extract(0,
        << [count |-> c[1], roles |-> <<Certify, GL, Root>>, job |-> J1,
            assignment |-> <<LCM, BATCH, LCM>>],
           [count |-> c[2], roles |-> <<Root, GL>>, job |-> J1, assignment |-> <<LCM, LCM>>],
           [count |-> c[3], roles |-> <<Certify>>, job |-> J1, assignment |-> <<BATCH>>],
           [count |-> c[4], roles |-> <<GL, GL>>, job |-> J1, assignment |-> <<LCM, BATCH>>],
           [count |-> c[5], roles |-> <<GL, Root>>, job |-> J2, assignment |-> <<BATCH, BATCH>>] >>)

Shapes ==
    {0, 6, 14} \X {0, 8} \X {0, 2, 11} \X (0..MaxSolo) \X {0, 9}

\* the extract without the columns in `dropped`
WithoutColumns(rows, dropped) ==
    LET keep == {c \in Range(DF_COLUMNS) : c \notin dropped}
    IN  [columns |-> SelectSeq(DF_COLUMNS, LAMBDA c : c \in keep),
         rows    |-> [i \in 1..Len(rows) |-> [c \in keep |-> rows[i][c]]]]

RuleTables ==
    { <<>>, << [a |-> Root, b |-> GL, severity |-> "medium"] >> }

Arguments ==
    {a \in [group_cols          : {<<"supervisor_level6", "job_code">>, <<"department">>},
            min_role_support    : {60, 80},
            min_itemset_support : {56, 70},
            max_k               : {2, 3},
            min_group_size      : {2, 10}] :
        a.min_role_support = 80 => a.min_itemset_support = 56}

\* a well-formed extract, any arguments, any rule table
InitExtract ==
    /\ \E c \in Shapes : df = WithoutColumns(Dataset(c), {})
    /\ SOD_RULES \in RuleTables
    /\ args \in Arguments

\* an extract that lacks one column
InitMalformed ==
    /\ \E c \in {s \in Shapes : s[1] = 6 /\ s[2] = 8} :
          \E col \in Range(DF_COLUMNS) : df = WithoutColumns(Dataset(c), {col})
    /\ SOD_RULES = <<>>
    /\ args \in {a \in Arguments : a.min_role_support = 60 /\ a.min_itemset_support = 70
                                     /\ a.max_k = 3 /\ a.min_group_size = 10}

NoMetric ==
    [op |-> "none", result |-> Frame(<<>>, <<>>)]

\* no call of the SoD engine, or of the new-joiner engine, yet
NoCall ==
    [op |-> "none"]

Init ==
    /\ InitExtract \/ InitMalformed
    /\ calls = <<>>
    /\ metric = NoMetric
    /\ sod_call = NoCall
    /\ joiner_call = NoCall

\* a call that drops the duplicate rows of the caller's DataFrame in place
SuggestItemsetsInPlace ==
    /\ Len(calls) < MaxCalls
    /\ calls' = Append(calls, suggest_itemsets(df, SOD_RULES, args))
    /\ df' = [df EXCEPT !.rows = Dedup(df.rows)]
    /\ UNCHANGED <<SOD_RULES, args, metric, sod_call, joiner_call>>

\* a call of suggest_itemsets; it returns a new DataFrame and assigns to
\* nothing the caller can see
SuggestItemsets ==
    /\ Len(calls) < MaxCalls
    /\ calls' = Append(calls, suggest_itemsets(df, SOD_RULES, args))
    /\ UNCHANGED <<df, SOD_RULES, args, metric, sod_call, joiner_call>>

Next ==
    SuggestItemsets

Spec ==
    Init /\ [][Next]_vars

-----------------------------------------------------------------------------
(* The metrics engine: calls of the three metrics functions on a dataset *)

MetricArguments ==
    [group_cols       : {<<"department">>, <<"supervisor_level6", "job_code">>},
     min_common_users : {3, 5},
     top_n            : {1, 50}]

\* the number of users who hold Viewer and Sudo_GL and nothing else
MaxTwins == 4

\* the rows of `count` users of J2, each holding Viewer and Sudo_GL
TwinRows(count) ==
    Concat([u \in 1..count |-> UserRows(2000 + u, <<Viewer, Sudo_GL>>, J2, <<LCM, LCM>>)])

InitMetrics ==
    /\ \/ \E c \in Shapes : df = WithoutColumns(Dataset(c), {})
       \/ \E c \in {s \in Shapes : s[1] = 6 /\ s[2] = 8} :
             \E col \in Range(DF_COLUMNS) : df = WithoutColumns(Dataset(c), {col})
       \/ \E c \in {s \in Shapes : s[2] = 0 /\ s[3] = 0} :
             df = WithoutColumns(Dataset(c) \o TwinRows(MaxTwins), {})
    /\ SOD_RULES = <<>>
    /\ args \in MetricArguments
    /\ calls = <<>>
    /\ metric = NoMetric
    /\ sod_call = NoCall
    /\ joiner_call = NoCall

RoleUsageMetrics ==
    /\ metric' = [op |-> "role_usage_metrics", result |-> role_usage_metrics(df, args.group_cols)]
    /\ UNCHANGED <<df, SOD_RULES, args, calls, sod_call, joiner_call>>

UserAccessSummary ==
    /\ metric' = [op |-> "user_access_summary", result |-> user_access_summary(df)]
    /\ UNCHANGED <<df, SOD_RULES, args, calls, sod_call, joiner_call>>

RoleOverlapJaccard ==
    /\ metric' = [op |-> "role_overlap_jaccard",
                  result |-> role_overlap_jaccard(df, args.min_common_users, args.top_n)]
    /\ UNCHANGED <<df, SOD_RULES, args, calls, sod_call, joiner_call>>

NextMetrics ==
    \/ RoleUsageMetrics
    \/ UserAccessSummary
    \/ RoleOverlapJaccard

SpecMetrics ==
    InitMetrics /\ [][NextMetrics]_vars

-----------------------------------------------------------------------------
(* The SoD engine: calls of detect_sod_conflicts, apply_sod_policy and      *)
(* assess_bundle_sod on lists of roles, under a configured rule table; a    *)
(* behaviour follows one call                                               *)

ROLE_NAMES ==
    {Viewer, Certify, GL, Root, Signoff_GL, Sudo_GL, Prod_Signoff, Prod_Signoff_GL}

\* the roles the rule tables speak of
RULE_ROLES ==
    {Viewer, Certify, GL, Root}

\* the longest list of roles a call of the SoD engine is given
MaxRoles == 3

\* the lists of roles (in any order, with repeats) the calls are given: up
\* to two roles of any names, and longer lists of the roles of the rule tables
RoleLists ==
    UNION {[1..n -> ROLE_NAMES] : n \in 0..2}
        \cup UNION {[1..n -> RULE_ROLES] : n \in 3..MaxRoles}

\* rule tables in the shape the comments of SOD_RULES give: a, b, and
\* optionally severity (in any case) and reason
SodRuleTables ==
    { <<>>,
      << [a |-> Root, b |-> GL, severity |-> "medium"] >>,
      << [a |-> Certify, b |-> GL, severity |-> "LOW", reason |-> "Monitoring overlap"],
         [a |-> GL, b |-> Certify, severity |-> "HIGH", reason |-> "Maker-checker violation"],
         [a |-> Certify, b |-> Root],
         [a |-> GL, b |-> Certify, severity |-> "high", reason |-> RATIONALE_MAKER_CHECKER],
         [a |-> GL, b |-> Certify, severity |-> "HIGH", reason |-> "Maker-checker violation"],
         [a |-> Root, b |-> Certify, severity |-> "Medium", reason |-> ""] >>,
      << [a |-> Root, b |-> GL, severity |-> "HIGH", reason |-> "Privileged posting"],
         [a |-> Certify, b |-> Root, severity |-> "High", reason |-> "Privileged approval"],
         [a |-> Viewer, b |-> Certify, severity |-> "low"] >> }

InitSod ==
    /\ df = Frame(<<>>, <<>>)
    /\ SOD_RULES \in SodRuleTables
    /\ args = <<>>
    /\ calls = <<>>
    /\ metric = NoMetric
    /\ sod_call = NoCall
    /\ joiner_call = NoCall

DetectSodConflicts ==
    \E roles \in RoleLists :
        /\ sod_call = NoCall
        /\ sod_call' = [op |-> "detect_sod_conflicts", roles |-> roles,
                        result |-> detect_sod_conflicts(SOD_RULES, roles)]
        /\ UNCHANGED <<df, SOD_RULES, args, calls, metric, joiner_call>>

ApplySodPolicy ==
    \E roles \in RoleLists, block_high \in BOOLEAN :
        /\ sod_call = NoCall
        /\ sod_call' = [op |-> "apply_sod_policy", roles |-> roles, block_high |-> block_high,
                        result |-> apply_sod_policy(SOD_RULES, roles, block_high)]
        /\ UNCHANGED <<df, SOD_RULES, args, calls, metric, joiner_call>>

AssessBundleSod ==
    \E roles \in RoleLists :
        /\ sod_call = NoCall
        /\ sod_call' = [op |-> "assess_bundle_sod", roles |-> roles,
                        result |-> assess_bundle_sod(SOD_RULES, roles)]
        /\ UNCHANGED <<df, SOD_RULES, args, calls, metric, joiner_call>>

NextSod ==
    \/ DetectSodConflicts
    \/ ApplySodPolicy
    \/ AssessBundleSod

SpecSod ==
    InitSod /\ [][NextSod]_vars

-----------------------------------------------------------------------------
(* The new-joiner engine: a call of recommend_access_for_new_joiner on a    *)
(* dataset, and calls of _remove_roles_for_high_conflicts on lists of pairs *)

J3  == <<"J", "3">>
S2  == <<"S", "2">>
OPS == <<"O", "P", "S">>

\* the number of users of job code J1 outside department FIN and supervisor S1
MaxOutsiders == 3

\* the rows of `count` users of J1 in department OPS under supervisor S2,
\* each holding Signoff_GL and GL
OutsiderRows(count) ==
    Concat([u \in 1..count |->
               [i \in 1..2 |->
                   [user_id           |-> 1000 + u,
                    ar_role_name      |-> <<Signoff_GL, GL>>[i],
                    assignment_type   |-> LCM,
                    job_code          |-> J1,
                    department        |-> OPS,
                    supervisor_level6 |-> S2]]])

\* the extracts of the new-joiner calls: none, or users of J1 in blocks (one
\* of them with a repeated row), with or without users of J2 and outsiders
JoinerDatasets ==
    {Frame(DF_COLUMNS, Dataset(c) \o OutsiderRows(x)) :
        c \in {<<0, 0, 0, 0, 0>>} \cup ({6, 14} \X {0, 8} \X {0, 10} \X {1} \X {0, 9}),
        x \in {0, MaxOutsiders}}

\* job_code, supervisor_level6, department
CohortFilters ==
    { <<J1, None, None>>,
      <<J1, <<" ", "S", "1", " ">>, FIN>>,
      <<J1, <<>>, <<" ">>>>,
      <<J1, S2, FIN>>,
      <<J1, S2, None>>,
      <<J3, None, None>> }

JoinerArguments ==
    {[job_code |-> f[1], supervisor_level6 |-> f[2], department |-> f[3],
      min_role_support |-> p, top_n |-> t, block_high_sod |-> b] :
        f \in CohortFilters, p \in {30, 56, 70}, t \in {1, 2, 15}, b \in BOOLEAN}

JoinerRuleTables ==
    { <<>>,
      << [a |-> Root, b |-> GL, severity |-> "HIGH", reason |-> "Privileged posting"],
         [a |-> Certify, b |-> Root, severity |-> "medium"] >>,
      << [a |-> Root, b |-> GL, severity |-> "HIGH", reason |-> "Privileged posting"],
         [a |-> GL, b |-> Root, severity |-> "HIGH", reason |-> "Posting by a privileged role"] >> }

InitJoiner ==
    /\ df \in JoinerDatasets
    /\ SOD_RULES \in JoinerRuleTables
    /\ args \in JoinerArguments
    /\ calls = <<>>
    /\ metric = NoMetric
    /\ sod_call = NoCall
    /\ joiner_call = NoCall

\* a call of recommend_access_for_new_joiner
RecommendAccessForNewJoiner ==
    \E order \in role_count_orders(df, args) :
        /\ joiner_call = NoCall
        /\ joiner_call' = [op         |-> "recommend_access_for_new_joiner",
                           order      |-> order,
                           candidates |-> candidate_roles(df, args, order),
                           result     |-> recommend_access_for_new_joiner(df, SOD_RULES, args,
                                                                          order)]
        /\ UNCHANGED <<df, SOD_RULES, args, calls, metric, sod_call>>

NextJoiner ==
    RecommendAccessForNewJoiner

SpecJoiner ==
    InitJoiner /\ [][NextJoiner]_vars

\* the longest list of HIGH pairs handed to _remove_roles_for_high_conflicts
MaxPairs == 2

\* lists of pairs of distinct roles
PairLists ==
    LET pairs == {pr \in {Certify, GL, Root} \X {Certify, GL, Root} : pr[1] # pr[2]}
    IN  UNION {[1..n -> pairs] : n \in 0..MaxPairs}

\* strength maps: users_with_role of some of the roles
StrengthMaps ==
    UNION {[S -> {1, 2}] : S \in SUBSET {Certify, GL, Root}}

InitRemoval ==
    /\ df = Frame(<<>>, <<>>)
    /\ SOD_RULES = <<>>
    /\ args = <<>>
    /\ calls = <<>>
    /\ metric = NoMetric
    /\ sod_call = NoCall
    /\ joiner_call = NoCall

\* a call of _remove_roles_for_high_conflicts
RemoveRolesForHighConflicts ==
    \E roles \in {<<Certify, GL, Root>>, <<GL, Root>>},
       high_conflict_pairs \in PairLists, role_strength \in StrengthMaps :
        /\ joiner_call = NoCall
        /\ joiner_call' = [op    |-> "remove_roles_for_high_conflicts",
                           roles |-> roles,
                           high_conflict_pairs |-> high_conflict_pairs,
                           role_strength |-> role_strength,
                           result |-> remove_roles_for_high_conflicts(roles, high_conflict_pairs,
                                                                      role_strength)]
        /\ UNCHANGED <<df, SOD_RULES, args, calls, metric, sod_call>>

NextRemoval ==
    RemoveRolesForHighConflicts

SpecRemoval ==
    InitRemoval /\ [][NextRemoval]_vars

-----------------------------------------------------------------------------
(* The service layer: a call of diagnose_bundles and a call of               *)
(* query_bundles on the same dataset with the same request                   *)

\* the datasets diagnosed: one or two groups, of 0 to 25 users
DiagnoseShapes ==
    {c \in Shapes : /\ c[3] \in {0, 2}
                    /\ c[1] = 0 => c[2] = 0
                    /\ c[1] = 14 => c[5] = 9}

\* the filters of a request: supervisor_level6, job_code, department
DiagnoseFilters ==
    { <<None, None, None>>, <<S1, J1, None>>, <<None, None, FIN>>, <<None, None, OPS>> }

\* the BundleDiagnoseRequest objects
DiagnoseRequests ==
    {[supervisor_level6   |-> flt[1],
      job_code            |-> flt[2],
      department          |-> flt[3],
      min_group_size      |-> size,
      min_role_support    |-> role_support,
      min_itemset_support |-> support,
      max_k               |-> k,
      top_n               |-> IF k = 2 THEN 1 ELSE 10] :
        flt \in DiagnoseFilters, size \in {2, 10}, role_support \in {30, 60},
        support \in {56, 70}, k \in {2, 3}}

\* the BundleQueryRequest with the filters and thresholds of a
\* BundleDiagnoseRequest
query_request(req) ==
    [supervisor_level6   |-> req.supervisor_level6,
     job_code            |-> req.job_code,
     assignment_type     |-> None,
     department          |-> req.department,
     min_group_size      |-> req.min_group_size,
     min_role_support    |-> req.min_role_support,
     min_itemset_support |-> req.min_itemset_support,
     max_k               |-> req.max_k]

InitDiagnose ==
    /\ \E c \in DiagnoseShapes : df = WithoutColumns(Dataset(c), {})
    /\ SOD_RULES = <<>>
    /\ args \in DiagnoseRequests
    /\ calls = <<>>
    /\ metric = NoMetric
    /\ sod_call = NoCall
    /\ joiner_call = NoCall

\* POST /bundles/diagnose
DiagnoseBundles ==
    /\ metric = NoMetric
    /\ \E order \in single_orders(df, args) :
          metric' = [op |-> "diagnose_bundles", result |-> diagnose_bundles(df, args, order)]
    /\ UNCHANGED <<df, SOD_RULES, args, calls, sod_call, joiner_call>>

\* POST /bundles/query
QueryBundles ==
    /\ calls = <<>>
    /\ calls' = <<query_bundles(df, SOD_RULES, query_request(args))>>
    /\ UNCHANGED <<df, SOD_RULES, args, metric, sod_call, joiner_call>>

NextDiagnose ==
    \/ DiagnoseBundles
    \/ QueryBundles

SpecDiagnose ==
    InitDiagnose /\ [][NextDiagnose]_vars

-----------------------------------------------------------------------------
(* What the claims speak of, read off the dataset itself *)

\* a call has returned; Last is what the latest call returned
Called ==
    calls # <<>>

Last ==
    calls[Len(calls)]

\* the dataset has rows and every column the call needs
WellFormed ==
    /\ df.rows # <<>>
    /\ ({"user_id", "ar_role_name"} \cup Range(args.group_cols)) \subseteq Range(df.columns)

\* the group (the values of the group columns) of a row of df or of the result
KeyOf(row) ==
    [i \in 1..Len(args.group_cols) |-> row[args.group_cols[i]]]

Keys ==
    {KeyOf(row) : row \in Range(df.rows)}

\* what the dataset says of the group `key`: its distinct users and, for each
\* of its roles, the users holding it
GroupOf(key) ==
    LET rows == {r \in Range(df.rows) : KeyOf(r) = key}
    IN  [users   |-> {r["user_id"] : r \in rows},
         holders |-> [role \in {r["ar_role_name"] : r \in rows} |->
                         {r["user_id"] : r \in {x \in rows : x["ar_role_name"] = role}}]]

Groups ==
    [key \in Keys |-> GroupOf(key)]

\* the users of group g who hold every role of S
Covering(g, S) ==
    {u \in g.users : \A role \in S : u \in g.holders[role]}

\* the roles of group g held by at least min_role_support of its users:
\* count >= ceil(support * n) is 100 * count >= support * n
Frequent(g) ==
    {role \in DOMAIN g.holders :
        100 * Cardinality(g.holders[role]) >= args.min_role_support * Cardinality(g.users)}

\* the effective itemset support the specification gives a group of n users
SpecEffective(n) ==
    IF n <= 12 THEN (IF args.min_itemset_support < 60 THEN args.min_itemset_support ELSE 60)
    ELSE IF n <= 25 THEN (IF args.min_itemset_support < 65 THEN args.min_itemset_support ELSE 65)
    ELSE args.min_itemset_support

\* S is an itemset the specification has the call emit for group g
Qualifies(g, S) ==
    LET n == Cardinality(g.users)
    IN  /\ n >= args.min_group_size
        /\ Cardinality(S) \in 2..args.max_k
        /\ S \subseteq Frequent(g)
        /\ 100 * Cardinality(Covering(g, S)) >= SpecEffective(n) * n

\* a row of the result is canonical: strictly increasing role names
Canonical(row) ==
    /\ Len(row["bundle_roles"]) = row["bundle_size"]
    /\ \A i \in 1..(Len(row["bundle_roles"]) - 1) :
          StrLess(row["bundle_roles"][i], row["bundle_roles"][i + 1])

\* C1: suggest_itemsets emits one row per (group, itemset) for exactly the
\* itemsets that qualify: a sorted k-combination (2 <= k <= max_k) of the
\* frequent roles of a group of at least min_group_size users is in the
\* output iff the users holding all its roles number at least
\* ceil(effective_itemset_support * users_in_group); no other row, no
\* duplicate row.
C1_ExactlyQualifyingItemsets ==
    (Called /\ WellFormed) =>
        LET G    == Groups
            rows == Last.rows
        IN  /\ \A i \in 1..Len(rows) :
                  /\ KeyOf(rows[i]) \in Keys
                  /\ Canonical(rows[i])
                  /\ Qualifies(G[KeyOf(rows[i])], Range(rows[i]["bundle_roles"]))
            /\ \A key \in Keys : \A S \in SUBSET (DOMAIN G[key].holders) :
                  Qualifies(G[key], S) =>
                      \E i \in 1..Len(rows) :
                          /\ KeyOf(rows[i]) = key
                          /\ Range(rows[i]["bundle_roles"]) = S
            /\ \A i, j \in 1..Len(rows) :
                  (/\ KeyOf(rows[i]) = KeyOf(rows[j])
                   /\ rows[i]["bundle_roles"] = rows[j]["bundle_roles"]) => i = j

\* C2: no row of the output belongs to a group with fewer than
\* min_group_size distinct users: users_in_group is the number of distinct
\* users of the row's group and is at least min_group_size.
C2_NoRowOfSmallGroup ==
    (Called /\ WellFormed) =>
        LET G == Groups
        IN  \A i \in 1..Len(Last.rows) :
                /\ Last.rows[i]["users_in_group"] = Cardinality(G[KeyOf(Last.rows[i])].users)
                /\ Last.rows[i]["users_in_group"] >= args.min_group_size

\* a 9-user group whose users all hold the same two roles is skipped under
\* min_group_size = 10
C2_Witness ==
    /\ Called /\ WellFormed
    /\ args.min_group_size = 10
    /\ \E key \in Keys :
          /\ Cardinality(GroupOf(key).users) = 9
          /\ Cardinality(Covering(GroupOf(key), {GL, Root})) = 9
          /\ \A i \in 1..Len(Last.rows) : KeyOf(Last.rows[i]) # key

\* C3: every row of the output has effective_itemset_support =
\* min(requested, 0.60) for users_in_group <= 12, min(requested, 0.65) for
\* 13..25, the requested value from 26 on, and min_itemset_count =
\* ceil(effective_itemset_support * users_in_group), the least integer m with
\* m >= effective * n.
C3_EffectiveSupportAndCount ==
    (Called /\ WellFormed) =>
        \A i \in 1..Len(Last.rows) :
            LET row == Last.rows[i]
                n   == row["users_in_group"]
                m   == row["min_itemset_count"]
            IN  /\ row["requested_min_itemset_support"] = args.min_itemset_support
                /\ row["effective_itemset_support"] = SpecEffective(n)
                /\ 100 * m >= SpecEffective(n) * n
                /\ 100 * (m - 1) < SpecEffective(n) * n

\* C4: every role of every itemset of the output is held by at least
\* ceil(min_role_support * users_in_group) users of the row's group.
C4_EveryRoleFrequent ==
    (Called /\ WellFormed) =>
        LET G == Groups
        IN  \A i \in 1..Len(Last.rows) :
                /\ Last.rows[i]["bundle_size"] >= 2
                /\ Range(Last.rows[i]["bundle_roles"]) \subseteq Frequent(G[KeyOf(Last.rows[i])])

\* a group emits a pair although a pair with an infrequent role is covered
\* by enough users to pass the itemset threshold
C4_Witness ==
    /\ Called /\ WellFormed
    /\ Last.rows # <<>>
    /\ \E i \in 1..Len(Last.rows) :
          LET g == GroupOf(KeyOf(Last.rows[i]))
          IN  \E r1 \in DOMAIN g.holders : \E r2 \in DOMAIN g.holders \ Frequent(g) :
                  /\ r1 # r2
                  /\ Cardinality(Covering(g, {r1, r2})) >= Last.rows[i]["min_itemset_count"]

Abs(x) ==
    IF x < 0 THEN -x ELSE x

\* C5: every row has users_covered = the number of distinct users of the
\* group holding every role of the itemset, users_covered <= users_in_group,
\* and coverage_pct = 100 * users_covered / users_in_group rounded to two
\* decimals (the nearest hundredth).
C5_CoverageOfRows ==
    (Called /\ WellFormed) =>
        LET G == Groups
        IN  \A i \in 1..Len(Last.rows) :
                LET row == Last.rows[i]
                    g   == G[KeyOf(row)]
                    n   == Cardinality(g.users)
                    c   == Cardinality(Covering(g, Range(row["bundle_roles"])))
                IN  /\ row["users_covered"] = c
                    /\ row["users_in_group"] = n
                    /\ row["users_covered"] <= row["users_in_group"]
                    /\ 2 * Abs(row["coverage_pct"] * n - 10000 * c) <= n

\* a row whose coverage is not a whole number of hundredths and rounds up
C5_Witness ==
    /\ Called /\ WellFormed
    /\ \E i \in 1..Len(Last.rows) :
          /\ Last.rows[i]["users_covered"] < Last.rows[i]["users_in_group"]
          /\ Last.rows[i]["coverage_pct"] * Last.rows[i]["users_in_group"]
                > 10000 * Last.rows[i]["users_covered"]

\* the example of the specification: 10 users, 8 of them hold GL and Root and
\* 2 hold neither, min_role_support 0.6, min_itemset_support 0.7,
\* min_group_size 10
TierExample(key) ==
    /\ args.min_role_support = 60 /\ args.min_itemset_support = 70 /\ args.min_group_size = 10
    /\ Cardinality(GroupOf(key).users) = 10
    /\ {GL, Root} \subseteq DOMAIN GroupOf(key).holders
    /\ Cardinality(GroupOf(key).holders[GL]) = 8
    /\ GroupOf(key).holders[GL] = GroupOf(key).holders[Root]

\* C6: confidence_tier of a row is STRONG iff coverage_pct >= 80, MEDIUM iff
\* 60 <= coverage_pct < 80, WEAK otherwise; the example group emits
\* {GL, Root} as STRONG.
C6_TierOfCoverage ==
    (Called /\ WellFormed) =>
        /\ \A i \in 1..Len(Last.rows) :
              LET pct  == Last.rows[i]["coverage_pct"]
                  tier == Last.rows[i]["confidence_tier"]
              IN  /\ tier \in {"STRONG", "MEDIUM", "WEAK"}
                  /\ tier = "STRONG" <=> pct >= 8000
                  /\ tier = "MEDIUM" <=> (pct >= 6000 /\ pct < 8000)
                  /\ tier = "WEAK" <=> pct < 6000
        /\ \A key \in Keys :
              TierExample(key) =>
                  \E i \in 1..Len(Last.rows) :
                      /\ KeyOf(Last.rows[i]) = key
                      /\ Last.rows[i]["bundle_roles"] = <<GL, Root>>
                      /\ Last.rows[i]["confidence_tier"] = "STRONG"

\* the example group has been mined: its pair is out with coverage 80.00
C6_Witness ==
    /\ Called /\ WellFormed
    /\ \E key \in Keys :
          /\ TierExample(key)
          /\ \E i \in 1..Len(Last.rows) :
                /\ KeyOf(Last.rows[i]) = key
                /\ Last.rows[i]["coverage_pct"] = 8000
                /\ Last.rows[i]["confidence_tier"] = "STRONG"

\* the sort key of the specification: tier rank (STRONG < MEDIUM < WEAK), SoD
\* rank (NONE < LOW < MEDIUM < HIGH), -coverage_pct, -bundle_size
SortKey(row) ==
    << CASE row["confidence_tier"] = "STRONG" -> 0
         [] row["confidence_tier"] = "MEDIUM" -> 1
         [] row["confidence_tier"] = "WEAK"   -> 2,
       CASE row["sod_risk"] = "NONE"   -> 0
         [] row["sod_risk"] = "LOW"    -> 1
         [] row["sod_risk"] = "MEDIUM" -> 2
         [] row["sod_risk"] = "HIGH"   -> 3,
       -row["coverage_pct"],
       -row["bundle_size"] >>

LexLeq(k1, k2) ==
    \/ k1 = k2
    \/ \E i \in 1..Len(k1) : (\A j \in 1..(i - 1) : k1[j] = k2[j]) /\ k1[i] < k2[i]

\* C7: the rows of the output are ordered by the sort key: the key of every
\* row is lexicographically <= the key of the next row.
C7_RowsSorted ==
    (Called /\ WellFormed) =>
        \A i \in 1..(Len(Last.rows) - 1) :
            LexLeq(SortKey(Last.rows[i]), SortKey(Last.rows[i + 1]))

\* a result over two groups in which a row of the second group precedes a
\* row of the first, and whose rows differ in tier and in SoD risk
C7_Witness ==
    /\ Called /\ WellFormed
    /\ \E i, j \in 1..Len(Last.rows) :
          /\ i < j
          /\ KeyLess(KeyOf(Last.rows[j]), KeyOf(Last.rows[i]))
    /\ \E i, j \in 1..Len(Last.rows) :
          /\ Last.rows[i]["confidence_tier"] # Last.rows[j]["confidence_tier"]
    /\ \E i, j \in 1..Len(Last.rows) :
          /\ Last.rows[i]["sod_risk"] # Last.rows[j]["sod_risk"]

\* C8: on a dataset that is empty or lacks a required column (user_id,
\* ar_role_name, a group column) the call raises nothing and returns no row,
\* under the group columns followed by the thirteen fixed output fields.
C8_EmptyStableResult ==
    (Called /\ ~WellFormed) =>
        /\ ~Last.raised
        /\ Last.rows = <<>>
        /\ Last.columns = args.group_cols \o
              <<"bundle_roles", "bundle_size", "users_in_group", "users_covered",
                "coverage_pct", "confidence_tier", "requested_min_itemset_support",
                "effective_itemset_support", "min_itemset_count", "explain", "sod_risk",
                "sod_conflict_count", "sod_conflicts">>

\* the call has returned on a dataset with rows that lacks a group column
C8_Witness ==
    /\ Called
    /\ df.rows # <<>>
    /\ {"user_id", "ar_role_name"} \subseteq Range(df.columns)
    /\ \E c \in Range(args.group_cols) : c \notin Range(df.columns)
    /\ ~Last.raised

MetricColumns(op) ==
    CASE op = "role_usage_metrics"   -> Range(args.group_cols) \cup {"user_id", "ar_role_name"}
      [] op = "user_access_summary"  -> {"user_id", "ar_role_name", "department", "job_code",
                                         "supervisor_level6", "assignment_type"}
      [] op = "role_overlap_jaccard" -> {"user_id", "ar_role_name"}
      [] OTHER                       -> {}

\* the fixed output fields of a metrics function
MetricFields(op) ==
    CASE op = "role_usage_metrics"   -> args.group_cols \o <<"ar_role_name", "users_with_role",
                                                            "users_in_group", "role_coverage_pct">>
      [] op = "user_access_summary"  -> <<"user_id", "department", "job_code",
                                          "supervisor_level6", "assignment_types", "role_count">>
      [] op = "role_overlap_jaccard" -> <<"role_a", "role_b", "common_users", "union_users",
                                          "jaccard">>
      [] OTHER                       -> <<>>

\* C9: a metrics function called on a dataset that lacks a column it needs
\* raises nothing and returns no row under its fixed output fields; and
\* role_overlap with no qualifying pair returns no row under role_a, role_b,
\* common_users, union_users, jaccard.
C9_MetricsEmptyStableResult ==
    /\ (metric.op # "none" /\ ~(MetricColumns(metric.op) \subseteq Range(df.columns))) =>
          /\ ~metric.result.raised
          /\ metric.result.rows = <<>>
          /\ metric.result.columns = MetricFields(metric.op)
    /\ (metric.op = "role_overlap_jaccard" /\ ~metric.result.raised
            /\ metric.result.rows = <<>>) =>
          metric.result.columns = MetricFields(metric.op)

-----------------------------------------------------------------------------
(* The SoD engine: what the claims speak of *)

\* the positions of the rules of the table whose two roles are both in R
MatchingRules(R) ==
    {i \in 1..Len(SOD_RULES) : SOD_RULES[i].a \in R /\ SOD_RULES[i].b \in R}

\* the severity a rule is configured with, MEDIUM when it names none
SeverityOf(rule) ==
    IF "severity" \in DOMAIN rule
    THEN (CASE rule.severity \in {"HIGH", "High", "high"} -> "HIGH"
            [] rule.severity \in {"LOW", "Low", "low"}    -> "LOW"
            [] OTHER                                      -> "MEDIUM")
    ELSE "MEDIUM"

\* HIGH=3, MEDIUM=2, LOW=1
RankOf(severity) ==
    CASE severity = "HIGH" -> 3 [] severity = "MEDIUM" -> 2 [] OTHER -> 1

\* s is strictly increasing in the order of str
StrictlySorted(s) ==
    \A i \in 1..(Len(s) - 1) : StrLess(s[i], s[i + 1])

\* C11: detect_sod_conflicts returns one conflict per configured rule whose
\* roles a and b are both in the input and none for any other rule, in
\* non-increasing severity rank (HIGH=3, MEDIUM=2, LOW=1), conflicts of equal
\* severity in the order of their rules in the table.
C11_ConflictsOfMatchingRules ==
    sod_call.op = "detect_sod_conflicts" =>
        LET found == sod_call.result
            M     == MatchingRules(Range(sod_call.roles))
            \* where the conflict of rule i stands: after the matching rules
            \* of higher rank and the earlier ones of its own rank
            place(i) == 1 + Cardinality({j \in M :
                            \/ RankOf(SeverityOf(SOD_RULES[j])) > RankOf(SeverityOf(SOD_RULES[i]))
                            \/ /\ RankOf(SeverityOf(SOD_RULES[j])) = RankOf(SeverityOf(SOD_RULES[i]))
                               /\ j < i})
        IN  /\ Len(found) = Cardinality(M)
            /\ \A i \in M :
                  /\ found[place(i)].a = SOD_RULES[i].a
                  /\ found[place(i)].b = SOD_RULES[i].b
                  /\ found[place(i)].severity = SeverityOf(SOD_RULES[i])
            /\ \A p \in 1..(Len(found) - 1) :
                  RankOf(found[p].severity) >= RankOf(found[p + 1].severity)

\* a call found conflicts of several rules, two of them HIGH, behind a LOW
\* one in the table, while another rule of the table did not match
C11_Witness ==
    /\ sod_call.op = "detect_sod_conflicts"
    /\ Len(sod_call.result) >= 3
    /\ Len(sod_call.result) < Len(SOD_RULES)
    /\ SeverityOf(SOD_RULES[1]) = "LOW"
    /\ sod_call.result[1].severity = "HIGH"
    /\ sod_call.result[2].severity = "HIGH"
    /\ sod_call.result[Len(sod_call.result)].severity = "LOW"

\* C12: apply_sod_policy with block_high removes role b of every HIGH
\* conflict found (b is in removed and not in kept) and no role on account
\* of a MEDIUM or LOW conflict; without block_high it removes nothing; in
\* every case kept and removed are disjoint, sorted, and together the set of
\* candidate roles.
C12_PolicyRemovesSecondOfHigh ==
    sod_call.op = "apply_sod_policy" =>
        LET kept      == sod_call.result.kept
            removed   == sod_call.result.removed
            conflicts == sod_call.result.conflicts
            high_b    == {conflicts[i].b : i \in {j \in 1..Len(conflicts) :
                                                    conflicts[j].severity = "HIGH"}}
        IN  /\ sod_call.block_high => Range(removed) = high_b
            /\ sod_call.block_high => high_b \cap Range(kept) = {}
            /\ ~sod_call.block_high => removed = <<>>
            /\ Range(kept) \cap Range(removed) = {}
            /\ Range(kept) \cup Range(removed) = Range(sod_call.roles)
            /\ StrictlySorted(kept)
            /\ StrictlySorted(removed)

\* the example: candidates [A, B] under a rule a=A, b=B, HIGH give kept=[A]
\* and removed=[B], with a MEDIUM or LOW conflict found as well
C12_Witness ==
    /\ sod_call.op = "apply_sod_policy"
    /\ sod_call.block_high
    /\ Len(sod_call.roles) = 2
    /\ \E i \in 1..Len(SOD_RULES) :
          /\ SeverityOf(SOD_RULES[i]) = "HIGH"
          /\ sod_call.roles = <<SOD_RULES[i].a, SOD_RULES[i].b>>
          /\ sod_call.result.kept = <<SOD_RULES[i].a>>
          /\ sod_call.result.removed = <<SOD_RULES[i].b>>
    /\ \E p \in 1..Len(sod_call.result.conflicts) :
          sod_call.result.conflicts[p].severity # "HIGH"

\* C13: apply_sod_policy with block_high never removes the first role of a
\* HIGH conflict: for every HIGH conflict (a, b) found, a is in kept.
C13_FirstOfHighKept ==
    (sod_call.op = "apply_sod_policy" /\ sod_call.block_high) =>
        \A p \in 1..Len(sod_call.result.conflicts) :
            sod_call.result.conflicts[p].severity = "HIGH" =>
                sod_call.result.conflicts[p].a \in Range(sod_call.result.kept)

\* the roles of the assessed bundle, and its pairs <<a, b>> with a before b
AssessedRoles ==
    Range(sod_call.roles)

AssessedPairs ==
    {pr \in AssessedRoles \X AssessedRoles : StrLess(pr[1], pr[2])}

\* the severities of the conflicts the assessment reports on the roles a, b
SeveritiesOn(a, b) ==
    {c.severity : c \in {x \in Range(sod_call.result.conflicts) : Range(x.pair) = {a, b}}}

\* the buckets of a role
Approval(role) == keyword_flags(role).approval
Finance(role) == keyword_flags(role).finance
HighPriv(role) == keyword_flags(role).high_priv

\* one role is approval and the other is finance
ApprovalWithFinance(a, b) ==
    (Approval(a) /\ Finance(b)) \/ (Approval(b) /\ Finance(a))

\* one role is approval and the other is high-privilege but not finance
ApprovalWithPrivileged(a, b) ==
    \/ (Approval(a) /\ HighPriv(b) /\ ~Finance(b))
    \/ (Approval(b) /\ HighPriv(a) /\ ~Finance(a))

\* C14: with no explicit rule matching, assess_bundle_sod flags a pair of
\* bundle roles HIGH iff one role is approval and the other is finance;
\* MEDIUM when one is approval and the other high-privilege but not finance
\* (and the pair is not HIGH); MEDIUM when both are high-privilege; and
\* reports nothing on any other pair.
C14_HeuristicPairs ==
    (sod_call.op = "assess_bundle_sod" /\ MatchingRules(AssessedRoles) = {}) =>
        \A pr \in AssessedPairs :
            LET a == pr[1]
                b == pr[2]
            IN  /\ ("HIGH" \in SeveritiesOn(a, b)) <=> ApprovalWithFinance(a, b)
                /\ (ApprovalWithPrivileged(a, b) /\ ~ApprovalWithFinance(a, b)) =>
                       "MEDIUM" \in SeveritiesOn(a, b)
                /\ (HighPriv(a) /\ HighPriv(b)) => "MEDIUM" \in SeveritiesOn(a, b)
                /\ (~ApprovalWithFinance(a, b) /\ ~ApprovalWithPrivileged(a, b)
                        /\ ~(HighPriv(a) /\ HighPriv(b))) => SeveritiesOn(a, b) = {}

\* C15: the risk assess_bundle_sod returns is the maximum severity over the
\* conflicts it returns (HIGH, else MEDIUM, else LOW, LOW when there is
\* none), and no two returned conflicts have the same pair, severity and
\* rationale.
C15_RiskIsMaxSeverity ==
    sod_call.op = "assess_bundle_sod" =>
        LET conflicts  == sod_call.result.conflicts
            severities == {conflicts[p].severity : p \in 1..Len(conflicts)}
        IN  /\ sod_call.result.risk \in {"HIGH", "MEDIUM", "LOW"}
            /\ \A sev \in severities : RankOf(sev) <= RankOf(sod_call.result.risk)
            /\ sod_call.result.risk # "LOW" => sod_call.result.risk \in severities
            /\ \A p, q \in 1..Len(conflicts) :
                  (/\ conflicts[p].pair = conflicts[q].pair
                   /\ conflicts[p].severity = conflicts[q].severity
                   /\ conflicts[p].rationale = conflicts[q].rationale) => p = q

\* an assessment of risk HIGH whose first conflict is not HIGH
C15_Witness ==
    /\ sod_call.op = "assess_bundle_sod"
    /\ sod_call.result.risk = "HIGH"
    /\ sod_call.result.conflicts[1].severity = "LOW"
    /\ Len(sod_call.result.conflicts) >= 2

\* the list s with its order reversed
Reversed(s) ==
    [i \in 1..Len(s) |-> s[Len(s) + 1 - i]]

\* C16: assess_bundle_sod does not depend on the order or the multiplicity
\* of its input roles: the reversed list, and the list with a role repeated,
\* give the same risk and the same conflicts, pair by pair in the same order
\* of the two roles.
C16_OrderIndependent ==
    sod_call.op = "assess_bundle_sod" =>
        /\ assess_bundle_sod(SOD_RULES, Reversed(sod_call.roles)) = sod_call.result
        /\ \A i \in 1..Len(sod_call.roles) :
              assess_bundle_sod(SOD_RULES, Append(sod_call.roles, sod_call.roles[i]))
                  = sod_call.result

\* two roles were passed in descending order, and the assessment reports a
\* heuristic conflict on them with the pair in ascending order
C16_Witness ==
    /\ sod_call.op = "assess_bundle_sod"
    /\ Len(sod_call.roles) = 2
    /\ StrLess(sod_call.roles[2], sod_call.roles[1])
    /\ \E c \in Range(sod_call.result.conflicts) :
          /\ c.pair = <<sod_call.roles[2], sod_call.roles[1]>>
          /\ c.rationale = RATIONALE_MAKER_CHECKER

-----------------------------------------------------------------------------
(* The new-joiner engine: what the claims speak of *)

\* C17: _remove_roles_for_high_conflicts goes through the pairs in list
\* order and, for each pair (a, b) with both roles still kept, removes a if
\* strength(a) < strength(b) and b otherwise (a role missing from the map
\* counting 0); a pair with a role already removed removes nothing; at the
\* end no listed pair has both roles in kept, and kept and removed partition
\* the input roles.
C17_WeakerRoleRemoved ==
    joiner_call.op = "remove_roles_for_high_conflicts" =>
        LET pairs == joiner_call.high_conflict_pairs
            n     == Len(pairs)
            strength(role) == IF role \in DOMAIN joiner_call.role_strength
                              THEN joiner_call.role_strength[role] ELSE 0
            \* the roles kept once the first k pairs are dealt with
            KeptAfter[k \in 0..n] ==
                IF k = 0 THEN Range(joiner_call.roles)
                ELSE LET a == pairs[k][1]
                         b == pairs[k][2]
                     IN  IF a \in KeptAfter[k - 1] /\ b \in KeptAfter[k - 1]
                         THEN KeptAfter[k - 1] \ {IF strength(a) < strength(b) THEN a ELSE b}
                         ELSE KeptAfter[k - 1]
            kept    == Range(joiner_call.result.kept)
            removed == Range(joiner_call.result.removed)
        IN  /\ kept = KeptAfter[n]
            /\ \A k \in 1..n : ~(pairs[k][1] \in kept /\ pairs[k][2] \in kept)
            /\ kept \cap removed = {}
            /\ kept \cup removed = Range(joiner_call.roles)
            /\ Len(joiner_call.result.kept) = Cardinality(kept)
            /\ Len(joiner_call.result.removed) = Cardinality(removed)

\* the first pair lost its first role, which the map does not list, and the
\* second pair, with that role again, removed nothing
C17_Witness ==
    /\ joiner_call.op = "remove_roles_for_high_conflicts"
    /\ Len(joiner_call.high_conflict_pairs) = 2
    /\ joiner_call.high_conflict_pairs[1][1] = joiner_call.high_conflict_pairs[2][1]
    /\ joiner_call.high_conflict_pairs[1][2] # joiner_call.high_conflict_pairs[2][2]
    /\ joiner_call.high_conflict_pairs[1][1] \notin DOMAIN joiner_call.role_strength
    /\ joiner_call.result.removed = <<joiner_call.high_conflict_pairs[1][1]>>
    /\ Len(joiner_call.result.kept) = 2

\* a record of the dataset is of the cohort: its job code is the one asked
\* for, and so are its supervisor and its department when they are provided
InCohort(row) ==
    /\ row["job_code"] = args.job_code
    /\ provided(args.supervisor_level6) =>
          row["supervisor_level6"] = strip(args.supervisor_level6)
    /\ provided(args.department) => row["department"] = strip(args.department)

CohortRecords ==
    {row \in Range(df.rows) : InCohort(row)}

Recommended ==
    joiner_call.op = "recommend_access_for_new_joiner"

\* C18: when no record matches the cohort filter (also when the dataset has
\* no row), recommend raises nothing and returns exactly one sentinel row:
\* users_in_cohort 0, empty role name, reason 'No users found for this
\* cohort.', sod_risk LOW, sod_conflict_count 0.
C18_SentinelOnEmptyCohort ==
    (Recommended /\ CohortRecords = {}) =>
        /\ ~joiner_call.result.raised
        /\ Len(joiner_call.result.rows) = 1
        /\ joiner_call.result.rows[1]["users_in_cohort"] = 0
        /\ joiner_call.result.rows[1]["ar_role_name"] = <<>>
        /\ joiner_call.result.rows[1]["reason"] = "No users found for this cohort."
        /\ joiner_call.result.rows[1]["sod_risk"] = "LOW"
        /\ joiner_call.result.rows[1]["sod_conflict_count"] = 0

\* the job code has records under the supervisor asked for, and records in
\* the department asked for, but none with both
C18_Witness ==
    /\ Recommended
    /\ CohortRecords = {}
    /\ provided(args.supervisor_level6) /\ provided(args.department)
    /\ \E row \in Range(df.rows) :
          /\ row["job_code"] = args.job_code
          /\ row["supervisor_level6"] = strip(args.supervisor_level6)
    /\ \E row \in Range(df.rows) :
          /\ row["job_code"] = args.job_code
          /\ row["department"] = strip(args.department)
    /\ Len(joiner_call.result.rows) = 1

\* the distinct users of the cohort, and those of them who hold a role
CohortUsers ==
    {row["user_id"] : row \in CohortRecords}

CohortHolders(role) ==
    {row["user_id"] : row \in {r \in CohortRecords : r["ar_role_name"] = role}}

\* the roles held by at least min_role_support of the cohort's users:
\* count >= ceil(support * n) is 100 * count >= support * n
CohortFrequent ==
    {role \in {row["ar_role_name"] : row \in CohortRecords} :
        100 * Cardinality(CohortHolders(role)) >= args.min_role_support * Cardinality(CohortUsers)}

\* the roles of the output rows
OutputRoles ==
    {joiner_call.result.rows[i]["ar_role_name"] : i \in 1..Len(joiner_call.result.rows)}

\* C19: for a non-empty cohort the candidate roles of recommend are the
\* top_n by distinct-user count among the roles with count >=
\* ceil(min_role_support * cohort_user_count): every candidate and every
\* output role meets that count, there are min(top_n, number of such roles)
\* candidates and at most top_n output roles, and no such role left out of
\* the candidates has a strictly greater count than a candidate.
C19_TopFrequentCandidates ==
    (Recommended /\ CohortRecords # {}) =>
        LET candidates == Range(joiner_call.candidates)
        IN  /\ OutputRoles \subseteq candidates
            /\ candidates \subseteq CohortFrequent
            /\ Len(joiner_call.candidates) = Cardinality(candidates)
            /\ Cardinality(candidates) = Min(args.top_n, Cardinality(CohortFrequent))
            /\ Cardinality(OutputRoles) <= args.top_n
            /\ \A left \in CohortFrequent \ candidates : \A cand \in candidates :
                  Cardinality(CohortHolders(left)) <= Cardinality(CohortHolders(cand))

\* C20: for a non-empty cohort and either value of block_high_sod, the
\* sod_risk, sod_conflict_count and sod_conflicts of every output row are
\* those of the assessment of exactly the roles of the output rows.
C20_SodFieldsOfFinalSet ==
    (Recommended /\ CohortRecords # {}) =>
        \A i \in 1..Len(joiner_call.result.rows) :
            LET row == joiner_call.result.rows[i]
                final == assess_bundle_sod(SOD_RULES,
                             [j \in 1..Len(joiner_call.result.rows) |->
                                 joiner_call.result.rows[j]["ar_role_name"]])
            IN  /\ row["sod_risk"] = final.risk
                /\ row["sod_conflict_count"] = Len(final.conflicts)
                /\ row["sod_conflicts"] = final.conflicts

\* with no explicit rule, block_high_sod removed a candidate of a heuristic
\* HIGH pair, and the rows report the lower risk of the roles that are left
C20_Witness ==
    /\ Recommended
    /\ args.block_high_sod
    /\ SOD_RULES = <<>>
    /\ Len(joiner_call.result.rows) >= 2
    /\ joiner_call.result.rows[1]["sod_removed_roles"] # <<>>
    /\ joiner_call.result.rows[1]["sod_risk"] = "MEDIUM"
    /\ assess_bundle_sod(SOD_RULES, joiner_call.candidates).risk = "HIGH"

\* the removed roles the result records: sod_removed_roles of its rows (a
\* result without rows records none)
RecordedRemoved ==
    UNION {Range(joiner_call.result.rows[i]["sod_removed_roles"]) :
              i \in 1..Len(joiner_call.result.rows)}

\* C21: for a non-empty cohort every candidate role of recommend is either
\* in an output row or recorded in the result as removed, never both, never
\* neither: the output roles and the removed-roles record are disjoint and
\* together the candidate set, also when every candidate is removed.
C21_CandidatesOutputOrRecorded ==
    (Recommended /\ CohortRecords # {}) =>
        /\ OutputRoles \cap RecordedRemoved = {}
        /\ OutputRoles \cup RecordedRemoved = Range(joiner_call.candidates)

\* C25: with block_high_sod, recommend never reports sod_risk HIGH, and no
\* two roles of its output rows form a HIGH conflict: neither a HIGH
\* explicit rule with both roles present nor an approval and finance pair.
C25_NoHighPairLeft ==
    (Recommended /\ args.block_high_sod) =>
        /\ \A i \in 1..Len(joiner_call.result.rows) :
              joiner_call.result.rows[i]["sod_risk"] # "HIGH"
        /\ \A i \in 1..Len(SOD_RULES) :
              SeverityOf(SOD_RULES[i]) = "HIGH" =>
                  ~({SOD_RULES[i].a, SOD_RULES[i].b} \subseteq OutputRoles)
        /\ \A a, b \in OutputRoles : a # b => ~ApprovalWithFinance(a, b)

\* the candidates held three HIGH pairs that chain through shared roles,
\* and two candidates are left in the output rows
C25_Witness ==
    /\ Recommended
    /\ args.block_high_sod
    /\ Cardinality({pr \in Range(joiner_call.candidates) \X Range(joiner_call.candidates) :
                       StrLess(pr[1], pr[2]) /\ ApprovalWithFinance(pr[1], pr[2])}) >= 3
    /\ Cardinality(OutputRoles) >= 2
    /\ Cardinality(RecordedRemoved) >= 2

-----------------------------------------------------------------------------
(* The metrics engine: what the claims speak of *)

\* the users who hold a role, and the roles of the dataset
HoldersOf(role) ==
    {row["user_id"] : row \in {r \in Range(df.rows) : r["ar_role_name"] = role}}

DatasetRoles ==
    {row["ar_role_name"] : row \in Range(df.rows)}

\* the pairs of distinct roles that share at least min_common_users users
QualifyingPairs ==
    {S \in SUBSET DatasetRoles :
        /\ Cardinality(S) = 2
        /\ \E a, b \in S :
              a # b /\ Cardinality(HoldersOf(a) \cap HoldersOf(b)) >= args.min_common_users}

\* the pair <<common, union>> ranks strictly above <<common2, union2>>: a
\* greater jaccard, or the same jaccard and more common users
RanksAbove(common, union, common2, union2) ==
    \/ common * union2 > common2 * union
    \/ (common * union2 = common2 * union /\ common > common2)

\* C22: role_overlap_jaccard returns the top_n qualifying pairs: every row is
\* a pair of distinct roles with common_users = |Ua & Ub| >= min_common_users,
\* union_users = |Ua | Ub| and jaccard = common_users / union_users (to four
\* places); there are min(top_n, number of qualifying pairs) rows, no pair
\* twice, in non-increasing (jaccard, common_users) order, and no qualifying
\* pair left out ranks strictly above a returned one.
C22_TopQualifyingPairs ==
    (metric.op = "role_overlap_jaccard" /\ ~metric.result.raised) =>
        LET rows == metric.result.rows
            returned == {{rows[i].role_a, rows[i].role_b} : i \in 1..Len(rows)}
            Common(S) == Cardinality(UNION {HoldersOf(a) \cap HoldersOf(b) :
                                               <<a, b>> \in {pr \in S \X S : pr[1] # pr[2]}})
            Union(S) == Cardinality(UNION {HoldersOf(a) : a \in S})
        IN  /\ \A i \in 1..Len(rows) :
                  /\ rows[i].role_a # rows[i].role_b
                  /\ {rows[i].role_a, rows[i].role_b} \in QualifyingPairs
                  /\ rows[i].common_users
                        = Cardinality(HoldersOf(rows[i].role_a) \cap HoldersOf(rows[i].role_b))
                  /\ rows[i].common_users >= args.min_common_users
                  /\ rows[i].union_users
                        = Cardinality(HoldersOf(rows[i].role_a) \cup HoldersOf(rows[i].role_b))
                  /\ rows[i].jaccard = RoundDiv(10000 * rows[i].common_users, rows[i].union_users)
            /\ Cardinality(returned) = Len(rows)
            /\ Len(rows) = Min(args.top_n, Cardinality(QualifyingPairs))
            /\ \A i \in 1..(Len(rows) - 1) :
                  ~RanksAbove(rows[i + 1].common_users, rows[i + 1].union_users,
                              rows[i].common_users, rows[i].union_users)
            /\ \A S \in QualifyingPairs \ returned : \A i \in 1..Len(rows) :
                  ~RanksAbove(Common(S), Union(S), rows[i].common_users, rows[i].union_users)

\* a pair of roles held by the same few users, fewer than min_common_users,
\* is left out although its jaccard is 1, above that of the returned rows
C22_Witness ==
    /\ metric.op = "role_overlap_jaccard"
    /\ ~metric.result.raised
    /\ metric.result.rows # <<>>
    /\ \E a, b \in DatasetRoles :
          /\ a # b
          /\ HoldersOf(a) = HoldersOf(b)
          /\ Cardinality(HoldersOf(a)) < args.min_common_users
          /\ \A i \in 1..Len(metric.result.rows) :
                /\ {metric.result.rows[i].role_a, metric.result.rows[i].role_b} # {a, b}
                /\ metric.result.rows[i].jaccard < 10000

-----------------------------------------------------------------------------
(* The mining engine: closure of its output *)

\* C26: for every itemset of size k >= 3 that suggest_itemsets emits for a
\* group, every sub-itemset of size k - 1 is emitted for the same group,
\* with users_covered at least that of the larger itemset.
C26_DownwardClosure ==
    (Called /\ ~Last.raised) =>
        \A i \in 1..Len(Last.rows) :
            Last.rows[i]["bundle_size"] >= 3 =>
                \A role \in Range(Last.rows[i]["bundle_roles"]) :
                    \E j \in 1..Len(Last.rows) :
                        /\ KeyOf(Last.rows[j]) = KeyOf(Last.rows[i])
                        /\ Last.rows[j]["bundle_size"] = Last.rows[i]["bundle_size"] - 1
                        /\ Range(Last.rows[j]["bundle_roles"])
                              = Range(Last.rows[i]["bundle_roles"]) \ {role}
                        /\ Last.rows[j]["users_covered"] >= Last.rows[i]["users_covered"]

\* a triple was emitted, and so was one of its pairs in the same group, held
\* by more users than the triple
C26_Witness ==
    /\ Called
    /\ ~Last.raised
    /\ \E i, j \in 1..Len(Last.rows) :
          /\ Last.rows[i]["bundle_size"] = 3
          /\ Last.rows[j]["bundle_size"] = 2
          /\ KeyOf(Last.rows[j]) = KeyOf(Last.rows[i])
          /\ Range(Last.rows[j]["bundle_roles"]) \subseteq Range(Last.rows[i]["bundle_roles"])
          /\ Last.rows[j]["users_covered"] > Last.rows[i]["users_covered"]

-----------------------------------------------------------------------------
(* The service layer: what the claims speak of *)

Diagnosed ==
    metric.op = "diagnose_bundles"

Diagnosis ==
    metric.result

\* the rows of the dataset that pass the filters of the request
FilteredRows ==
    {row \in Range(df.rows) :
        \A c \in {"supervisor_level6", "job_code", "department"} :
            (args[c] # None /\ args[c] # <<>>) => row[c] = args[c]}

\* the columns diagnosis groups by: the supervisor group and the job code,
\* and the department when the request names one
DiagnosisCols ==
    IF args.department # None /\ args.department # <<>>
    THEN {"supervisor_level6", "job_code", "department"}
    ELSE {"supervisor_level6", "job_code"}

DiagnosisKey(row) ==
    [c \in DiagnosisCols |-> row[c]]

\* the groups of the filtered dataset: for each, its distinct users and,
\* for each of its roles, the users holding it
DiagnosisGroups ==
    {[users   |-> {r["user_id"] : r \in {x \in FilteredRows : DiagnosisKey(x) = key}},
      holders |-> [role \in {r["ar_role_name"] :
                                r \in {x \in FilteredRows : DiagnosisKey(x) = key}} |->
                      {r["user_id"] : r \in {x \in FilteredRows :
                                                DiagnosisKey(x) = key
                                                /\ x["ar_role_name"] = role}}]] :
        key \in {DiagnosisKey(row) : row \in FilteredRows}}

\* the pairs (k = 2) or triples (k = 3) of roles frequent in a group of at
\* least min_group_size users: <<group, roles, covered, users>>
ObservedItemsets(k) ==
    UNION {{<<g, S, Cardinality(Covering(g, S)), Cardinality(g.users)>> :
               S \in {T \in SUBSET Frequent(g) : Cardinality(T) = k}} :
           g \in {x \in DiagnosisGroups : Cardinality(x.users) >= args.min_group_size}}

\* the support of p is the highest of the observed itemsets
Highest(observed, p) ==
    \A q \in observed : q[3] * p[4] <= p[3] * q[4]

\* pct is the highest support observed (0 when no itemset is observed, and
\* then no itemset is reported), and a reported entry is an itemset and
\* group of that support; one is reported whenever that support is above 0
ReportsBest(observed, entry, pct) ==
    /\ observed = {} => (entry = NONE_ENTRY /\ pct = 0)
    /\ \A p \in observed :
          Highest(observed, p) =>
              /\ pct = RoundDiv(10000 * p[3], p[4])
              /\ p[3] > 0 => entry # NONE_ENTRY
    /\ entry # NONE_ENTRY =>
          \E p \in observed :
              /\ Highest(observed, p)
              /\ Range(entry.roles) = p[2]
              /\ entry.covered = p[3]
              /\ entry.users_in_group = p[4]

CAUSE_ALL_SMALL   == "All groups below min_group_size="
CAUSE_PAIR_LOW    == "min_itemset_support too high: best_pair_support="
CAUSE_TRIPLE_LOW  == "best_triple_support="
CAUSE_NO_BLOCKER  == "Thresholds allow bundles; if count is still low, data may be sparse for selected filters."

CausesNamed ==
    {c \in {CAUSE_ALL_SMALL, CAUSE_PAIR_LOW, CAUSE_TRIPLE_LOW, CAUSE_NO_BLOCKER} :
        c \in Range(Diagnosis.blocking_reason)}

\* the best-observed pair meets the requested itemset support
BestPairMeetsThreshold ==
    \E p \in ObservedItemsets(2) : 100 * p[3] >= args.min_itemset_support * p[4]

\* C24: when diagnose checked at least one group, its blocking_reason names
\* exactly one of the four causes (all groups too small, threshold too high
\* for the best pair, threshold too high for the best triple, no obvious
\* blocker); it names only "all groups too small" when every checked group
\* is below min_group_size, and "no obvious blocker" whenever the
\* best-observed pair meets the threshold.
C24_OneDominantCause ==
    (Diagnosed /\ Diagnosis.groups_checked > 0) =>
        /\ Cardinality(CausesNamed) = 1
        /\ Diagnosis.groups_below_min_size = Diagnosis.groups_checked =>
               CausesNamed = {CAUSE_ALL_SMALL}
        /\ BestPairMeetsThreshold => CausesNamed = {CAUSE_NO_BLOCKER}

\* every checked group is below min_group_size and the blocking_reason names
\* the pair threshold as well
C24_AllSmallAndPairLow ==
    /\ Diagnosed
    /\ Diagnosis.groups_checked > 0
    /\ Diagnosis.groups_below_min_size = Diagnosis.groups_checked
    /\ {CAUSE_ALL_SMALL, CAUSE_PAIR_LOW} \subseteq CausesNamed

\* the best-observed pair meets the threshold and the blocking_reason names
\* the triple threshold, not "no obvious blocker"
C24_PairMeetsAndTripleLow ==
    /\ Diagnosed
    /\ BestPairMeetsThreshold
    /\ CausesNamed = {CAUSE_TRIPLE_LOW}

\* the request sets no filter
NoFilters ==
    /\ args.supervisor_level6 = None
    /\ args.job_code = None
    /\ args.department = None

\* mining, grouped by supervisor group and job code, emitted a pair
MiningEmitsPair ==
    /\ Called
    /\ ~Last.raised
    /\ \E i \in 1..Len(Last.rows) : Last.rows[i]["bundle_size"] = 2

\* C27: with no filters set, if suggest_itemsets grouped by (supervisor
\* group, job code) emits a bundle of size 2, diagnose with the same
\* min_group_size, min_role_support, min_itemset_support and max_k does not
\* report that min_itemset_support is too high for the best-observed pair.
C27_DiagnosisAgreesWithMining ==
    (Diagnosed /\ NoFilters /\ MiningEmitsPair) =>
        CAUSE_PAIR_LOW \notin CausesNamed

\* mining emitted a pair for a group of at most 25 users under its lowered
\* effective support, and diagnose judged the pair against the requested one
C27_SmallCohortPairReportedLow ==
    /\ Diagnosed
    /\ NoFilters
    /\ MiningEmitsPair
    /\ CAUSE_PAIR_LOW \in CausesNamed
    /\ \E i \in 1..Len(Last.rows) :
          /\ Last.rows[i]["bundle_size"] = 2
          /\ Last.rows[i]["effective_itemset_support"]
                 < Last.rows[i]["requested_min_itemset_support"]

====
